---- MODULE Spec2Model ----
(***************************************************************************)
(* use-fast-context: createContextStore (a store cell behind two React     *)
(* contexts, read through useSyncExternalStore) and createStatePublisher   *)
(* (a cell written by the props of its Provider, read by useSharedValue).  *)
(*                                                                         *)
(* JavaScript values are records of one shape, so that any two of them can *)
(* be compared: t is the typeof-like tag ("string", "number", "boolean",   *)
(* "undefined", "null", "object"), s the characters of a string, n the     *)
(* number (or 0/1 for a boolean), id the identity of an object (0 for a    *)
(* primitive) and fields the own enumerable properties of an object.       *)
(***************************************************************************)
EXTENDS Integers, Sequences, FiniteSets, TLC

\* ------------------------------------------------------------------ bounds
\* Set calls per behaviour, all stores together.
MaxSets == 2
\* Re-renders of the Providers caused by their parent.
MaxProviderRenders == 1
\* Set calls in the behaviours that also render components outside a Provider.
MaxSetsBesideStrays == 1
\* Re-renders of a publisher Provider after its mount.
MaxPublisherRenders == 2
\* Set calls on the counter store.
MaxIncrements == 3
\* Set calls on the cell whose callbacks are arbitrary, nested ones included.
MaxCellSets == 2
\* Callback invocations in one notification pass.
MaxInvocations == 3
\* Mounts of the tree with two Providers of one factory, and set calls in it.
MaxMounts == 2
MaxMountSets == 2

\* ------------------------------------------------------------ JS values
NoFields == [k \in {} |-> 0]

Str(s) == [t |-> "string", s |-> s, n |-> 0, id |-> 0, fields |-> NoFields]
Num(n) == [t |-> "number", s |-> <<>>, n |-> n, id |-> 0, fields |-> NoFields]
Bool(b) ==
  [t |-> "boolean", s |-> <<>>, n |-> IF b THEN 1 ELSE 0, id |-> 0, fields |-> NoFields]
Undefined == [t |-> "undefined", s |-> <<>>, n |-> 0, id |-> 0, fields |-> NoFields]
Null == [t |-> "null", s |-> <<>>, n |-> 0, id |-> 0, fields |-> NoFields]
Obj(i, f) == [t |-> "object", s |-> <<>>, n |-> 0, id |-> i, fields |-> f]

\* `typeof v`: null reports "object".
TypeOf(v) == IF v.t = "null" THEN "object" ELSE v.t

\* Object.is (no NaN or -0 among the modelled values).
ObjectIs(a, b) ==
  IF a.t = "object" \/ b.t = "object"
    THEN a.t = b.t /\ a.id = b.id
    ELSE a.t = b.t /\ a.s = b.s /\ a.n = b.n

\* The same value up to object identity.
SameContent(a, b) ==
  a.t = b.t /\ a.s = b.s /\ a.n = b.n /\ a.fields = b.fields

\* The property name of the i-th character of a string (1-based i).
IndexKey(i) == CASE i = 1 -> "0" [] i = 2 -> "1" [] i = 3 -> "2" [] OTHER -> "3"

\* The own enumerable properties that `{...v}` copies: the fields of an
\* object, the characters of a string, nothing for any other value.
Spread(v) ==
  IF v.t = "object" THEN v.fields
  ELSE IF v.t = "string"
    THEN [k \in {IndexKey(i) : i \in 1..Len(v.s)} |->
            Str(<<v.s[CHOOSE i \in 1..Len(v.s) : IndexKey(i) = k]>>)]
    ELSE NoFields

\* Mutant of MergeFields: the spreads in the wrong order, `{...b, ...a}`.
MergeFields_swapped(a, b) ==
  [k \in (DOMAIN a) \cup (DOMAIN b) |-> IF k \in DOMAIN a THEN a[k] ELSE b[k]]

\* Properties of `{...a, ...b}`: b's keys win.
MergeFields(a, b) ==
  [k \in (DOMAIN a) \cup (DOMAIN b) |-> IF k \in DOMAIN b THEN b[k] ELSE a[k]]

\* `v[k]` for a property name k that is not an index.
Prop(v, k) ==
  IF v.t = "object" /\ k \in DOMAIN v.fields THEN v.fields[k] ELSE Undefined

\* `s.replaceAll('i', '1')`
ReplaceAllI(s) == [j \in 1..Len(s) |-> IF s[j] = "i" THEN "1" ELSE s[j]]

NaN == [t |-> "number", s |-> <<"NaN">>, n |-> 0, id |-> 0, fields |-> NoFields]

\* `v + 1` for the values a count field can hold.
PlusOne(v) ==
  IF v.t = "number" /\ v.s = <<>> THEN Num(v.n + 1)
  ELSE IF v.t = "string" THEN Str(Append(v.s, "1"))
  ELSE NaN

\* ------------------------------------------------- factories and the tree
\* The createContextStore calls: A and B are the two stores of StoreTest, C
\* is the counter store of the documented example.  The createStatePublisher
\* calls: P publishes theme and language, S publishes stringValue.
Stores == {"A", "B", "C", "D"}
StoreTest == {"A", "B"}
CounterApp == {"C"}
Publishers == {"P", "S"}
Factories == Stores \cup Publishers

\* The initialState argument of each factory call; the object literals
\* have the identities 1 to 4.
InitialState(f) ==
  CASE f = "A" -> Obj(1, [k \in {"first", "last"} |-> Str(<<>>)])
    [] f \in {"C", "D"} -> Obj(2, [k \in {"count"} |-> Num(0)])
    [] f = "P" -> Obj(3, [k \in {"theme", "language"} |->
                           IF k = "theme" THEN Str(<<"light">>) ELSE Str(<<"en">>)])
    [] f = "S" -> Obj(4, [k \in {"stringValue"} |-> Str(<<>>)])
    [] OTHER -> Str(<<>>)

\* The displayName argument ("" when it is not given).
DisplayName(f) ==
  CASE f = "A" -> "StoreContext"
    [] f = "P" -> "SharedStateContext"
    [] f = "S" -> "SharedStringStateContext"
    [] OTHER -> ""

\* The Providers that enclose the Provider of a factory: B's is nested in A's.
\* D is a second Provider of the factory of C, rendered inside the first.
ProviderUnder(f) == IF f = "B" THEN {"A"} ELSE IF f = "D" THEN {"C"} ELSE {}

\* The factory whose Provider and contexts a Provider instance is.
FactoryOf(f) == IF f = "D" THEN "C" ELSE f

\* Mutant of Nearest: the outermost Provider of the factory.
Nearest_outermost(fac, under) ==
  CHOOSE p \in under :
    FactoryOf(p) = fac /\ \A q \in under : FactoryOf(q) = fac => q \notin ProviderUnder(p)

\* useContext(StoreValueContext) or useContext(StoreDispatchContext) of
\* factory fac in a component inside the Providers under: the value of the
\* nearest enclosing Provider of that factory.
Nearest(fac, under) ==
  CHOOSE p \in under :
    FactoryOf(p) = fac /\ \A q \in under : FactoryOf(q) = fac => p \notin ProviderUnder(q)

\* Component instances.  hook is the read hook the component calls ("none"
\* when it calls none), of is the factory of that hook, selector the key its
\* selector projects ("none": no selector), dispatch the store whose
\* useStoreDispatch it calls ("none": it does not), under the Providers that
\* enclose it.
Cfg(h, o, sel, d, u) ==
  [hook |-> h, of |-> o, selector |-> sel, dispatch |-> d, under |-> u]

Comps ==
  {"TextInput", "Display", "Whole", "ResetButton", "FormContainer", "InputText",
   "InputValue",
   "CounterDisplay", "CounterState", "CounterUpdate", "CounterSsr",
   "CounterDisplayD", "CounterUpdateD",
   "WrapperComponent0", "NestedComponent0", "ThemeConsumer", "LangConsumer",
   "WrapperComponent1", "NestedComponent1", "StringConsumer",
   "StrayValue", "StrayDispatch", "StrayValueB", "StrayDispatchA", "StrayShared"}

CompCfg(c) ==
  CASE c = "TextInput" -> Cfg("useStoreValue", "A", "first", "A", {"A", "B"})
    [] c = "Display" -> Cfg("useStoreValue", "A", "last", "none", {"A", "B"})
    [] c = "Whole" -> Cfg("useStoreValue", "A", "none", "none", {"A", "B"})
    [] c = "ResetButton" -> Cfg("none", "none", "none", "A", {"A", "B"})
    [] c = "FormContainer" -> Cfg("none", "none", "none", "none", {"A", "B"})
    [] c = "InputText" -> Cfg("useStoreValue", "B", "none", "B", {"A", "B"})
    [] c = "InputValue" -> Cfg("useStoreValue", "B", "none", "none", {"A", "B"})
    [] c = "CounterDisplay" -> Cfg("useStoreValue", "C", "count", "none", {"C"})
    [] c = "CounterState" -> Cfg("useStoreValue", "C", "none", "none", {"C"})
    [] c = "CounterUpdate" -> Cfg("none", "none", "none", "C", {"C"})
    [] c = "CounterSsr" -> Cfg("useStoreValue", "C", "count", "none", {"C"})
    [] c = "CounterDisplayD" ->
         Cfg("useStoreValue", Nearest("C", {"C", "D"}), "count", "none", {"C", "D"})
    [] c = "CounterUpdateD" ->
         Cfg("none", "none", "none", Nearest("C", {"C", "D"}), {"C", "D"})
    [] c = "WrapperComponent0" -> Cfg("none", "none", "none", "none", {"P"})
    [] c = "NestedComponent0" -> Cfg("none", "none", "none", "none", {"P"})
    [] c = "ThemeConsumer" -> Cfg("useSharedValue", "P", "theme", "none", {"P"})
    [] c = "LangConsumer" -> Cfg("useSharedValue", "P", "language", "none", {"P"})
    [] c = "WrapperComponent1" -> Cfg("none", "none", "none", "none", {"S"})
    [] c = "NestedComponent1" -> Cfg("none", "none", "none", "none", {"S"})
    [] c = "StringConsumer" -> Cfg("useSharedValue", "S", "none", "none", {"S"})
    [] c = "StrayValue" -> Cfg("useStoreValue", "A", "none", "none", {})
    [] c = "StrayDispatch" -> Cfg("none", "none", "none", "B", {})
    [] c = "StrayValueB" -> Cfg("useStoreValue", "B", "first", "none", {})
    [] c = "StrayDispatchA" -> Cfg("none", "none", "none", "A", {})
    [] OTHER -> Cfg("useSharedValue", "P", "none", "none", {})

\* ---------------------------------------------------------------- updates
\* The argument of set: a function (fn names it) or a value v.
FnUpdate(name) == [kind |-> "fn", fn |-> name, v |-> Undefined]
ValueUpdate(v) == [kind |-> "value", fn |-> "", v |-> v]

FnNames == {"identity", "incCount", "iTo1"}

UpdateValues ==
  { Str(<<"a", "i">>), Num(0),
    Obj(0, [k \in {"first"} |-> Str(<<"a">>)]),
    Obj(0, [k \in {"last"} |-> Str(<<"i">>)]),
    InitialState("A") }

Updates == {FnUpdate(f) : f \in FnNames} \cup {ValueUpdate(v) : v \in UpdateValues}

\* The function updates: prev => prev, prev => ({count: prev.count + 1}) and
\* prev => prev.replaceAll('i', '1').  threw: the call raised a TypeError.
Returned(v) == [threw |-> FALSE, v |-> v]
Threw == [threw |-> TRUE, v |-> Undefined]

ApplyFn(name, prev, fresh) ==
  CASE name = "identity" -> Returned(prev)
    [] name = "incCount" ->
         IF prev.t \in {"undefined", "null"} THEN Threw
         ELSE Returned(Obj(fresh, [k \in {"count"} |-> PlusOne(Prop(prev, "count"))]))
    [] OTHER ->
         IF prev.t = "string" THEN Returned(Str(ReplaceAllI(prev.s))) ELSE Threw

\* Mutant of SetValue: the result of a function update is merged into the
\* previous value like a partial object.
SetValue_mergesFn(cur, u, fresh) ==
  IF u.kind = "fn"
    THEN (IF ApplyFn(u.fn, cur, fresh).threw THEN Threw
          ELSE Returned(Obj(fresh, MergeFields(Spread(cur),
                                  Spread(ApplyFn(u.fn, cur, fresh).v)))))
  ELSE IF TypeOf(u.v) # "object" THEN Returned(u.v)
  ELSE Returned(Obj(fresh, MergeFields(Spread(cur), Spread(u.v))))

\* Mutant of SetValue: no branch for a primitive update, which is spread
\* like an object.
SetValue_noPrimitiveBranch(cur, u, fresh) ==
  IF u.kind = "fn" THEN ApplyFn(u.fn, cur, fresh)
  ELSE Returned(Obj(fresh, MergeFields(Spread(cur), Spread(u.v))))

\* Mutant of SetValue: an object update that changes no property keeps the
\* current object.
SetValue_keepsWhenSame(cur, u, fresh) ==
  IF u.kind = "fn" THEN ApplyFn(u.fn, cur, fresh)
  ELSE IF TypeOf(u.v) # "object" THEN Returned(u.v)
  ELSE IF cur.t = "object" /\ MergeFields(Spread(cur), Spread(u.v)) = cur.fields
    THEN Returned(cur)
  ELSE Returned(Obj(fresh, MergeFields(Spread(cur), Spread(u.v))))

\* The value that set(value) assigns to store.current.
SetValue(cur, u, fresh) ==
  IF u.kind = "fn" THEN ApplyFn(u.fn, cur, fresh)
  ELSE IF TypeOf(u.v) # "object" THEN Returned(u.v)
  ELSE Returned(Obj(fresh, MergeFields(Spread(cur), Spread(u.v))))

\* ------------------------------------------------------------------ state
VARIABLES
  provMounted,   \* [Factories -> BOOLEAN]: the Provider is mounted
  provRenders,   \* [Factories -> Nat]: renders of the Provider since mount
  rootRenders,   \* renders of the component that renders the outer Provider
  storeCur,      \* [Factories -> value]: store.current of the Provider's cell
  subscribers,   \* [Factories -> SUBSET Comps]: subscribers.current
  refs,          \* [Factories -> record]: identities of get, set, subscribe,
                 \*   of the memoized value-context object and its deps
  nextId,        \* next fresh object identity
  nextRef,       \* next fresh function / context-object identity
  mounted,       \* [Comps -> BOOLEAN]
  renders,       \* [Comps -> Nat]: committed renders since mount
  snap,          \* [Comps -> value]: what the read hook returned last render
  gotSet,        \* [Comps -> Nat]: what useStoreDispatch returned last render
  thrown,        \* the last error thrown: by the render of which component
                 \*   (or the set of which store) and its message
  setCalls,      \* number of set calls so far
  lastSet,       \* the last set call: its store, its update and the value
                 \*   get() returned before it
  folded,        \* [Stores -> value]: fold of the update rule over the calls
  inScope,       \* [Stores -> BOOLEAN]: every call so far was a partial-object
                 \*   or function update of an object-shaped value
  pub,           \* [Publishers -> record]: of the publisher Provider, the
                 \*   props of its last render (stable: UNSAFE_stable_children,
                 \*   rest: the state props, children: the identity of the
                 \*   children prop), what its hooks hold (element, memoDeps,
                 \*   effectDeps), the children of its mount render (first),
                 \*   the number of calls of set (sets) and the fold of the
                 \*   merge rule over the props it applied (applied), and
                 \*   what each component showed at the end of the render
                 \*   pass of its last render, before its effect (pass)
  cell,          \* a cell used through get, set and subscribe alone, with
                 \*   callbacks of any behaviour: store.current (value),
                 \*   subscribers.current in insertion order (subs), the set
                 \*   calls that have not returned, innermost last (frames),
                 \*   what the calls so far did, the argument of the last
                 \*   set call (update) and the properties of every object
                 \*   that was the value, by identity (heap)
  mounts         \* number of times a tree of store Providers was mounted

vars ==
  <<provMounted, provRenders, rootRenders, storeCur, subscribers, refs, nextId, nextRef,
    mounted, renders, snap, gotSet, thrown, setCalls, lastSet, folded,
    inScope, pub, cell, mounts>>

NoRefs == [get |-> 0, set |-> 0, subscribe |-> 0, value |-> 0, deps |-> <<0, 0>>]

NoPub(f) ==
  [stable |-> FALSE, rest |-> NoFields, children |-> 0, element |-> 0,
   memoDeps |-> <<>>, effectDeps |-> <<>>, first |-> 0, sets |-> 0,
   applied |-> InitialState(f), pass |-> [c \in Comps |-> Undefined]]

\* The callbacks given to subscribe, and the operation a caller made last:
\* for subscribe and unsubscribe, had tells whether the callback was an
\* entry of the set when the call was made.
Callbacks == {"k1", "k2"}
Op(op, k, had) == [op |-> op, k |-> k, had |-> had]

\* The cell of a Provider that has just mounted: useRef(initialState) and
\* useRef(new Set()); no call has been made.
NewCell ==
  [value |-> InitialState("A"), subs |-> <<>>, frames |-> <<>>,
   issued |-> {}, sets |-> 0, writes |-> 0, started |-> 0, returned |-> 0,
   computed |-> InitialState("A"),
   done |-> [computed |-> InitialState("A"), startSubs |-> {}, order |-> <<>>,
             pos |-> 0, invoked |-> <<>>, removed |-> {}],
   got |-> [v |-> Undefined, first |-> Undefined, at |-> -1],
   lastOp |-> Op("none", "", FALSE),
   update |-> FnUpdate(""),
   heap |-> [i \in {InitialState("A").id} |-> InitialState("A").fields]]

Error(by, msg) == [by |-> by, msg |-> msg]
SetCall(f, u, prev) == [store |-> f, update |-> u, prev |-> prev]

\* get(): the current value of the cell of store f.
Get(f) == storeCur[f]

Init ==
  /\ provMounted = [f \in Factories |-> FALSE]
  /\ provRenders = [f \in Factories |-> 0]
  /\ rootRenders = 0
  /\ storeCur = [f \in Factories |-> Undefined]
  /\ subscribers = [f \in Factories |-> {}]
  /\ refs = [f \in Factories |-> NoRefs]
  /\ nextId = 5
  /\ nextRef = 1
  /\ mounted = [c \in Comps |-> FALSE]
  /\ renders = [c \in Comps |-> 0]
  /\ snap = [c \in Comps |-> Undefined]
  /\ gotSet = [c \in Comps |-> 0]
  /\ thrown = Error("", "")
  /\ setCalls = 0
  /\ lastSet = SetCall("none", FnUpdate(""), Undefined)
  /\ folded = [f \in Stores |-> InitialState(f)]
  /\ inScope = [f \in Stores |-> TRUE]
  /\ pub = [f \in Publishers |-> NoPub(f)]
  /\ cell = NewCell
  /\ mounts = 0

\* ------------------------------------------------------- React primitives
\* Mutant of UseCallback: no memoization, a new function on every render.
UseCallback_noMemo(isMount, prev, fresh) == fresh

\* useCallback(fn, []): the function of the first render is kept.
UseCallback(isMount, prev, fresh) == IF isMount THEN fresh ELSE prev

\* Mutant of UseMemo: the value of the first render is kept whatever the
\* dependencies.
UseMemo_keepsFirst(isMount, prev, prevDeps, deps, fresh) ==
  IF isMount THEN fresh ELSE prev

\* useMemo(factory, deps): recomputed when a dependency changed identity.
UseMemo(isMount, prev, prevDeps, deps, fresh) ==
  IF isMount \/ deps # prevDeps THEN fresh ELSE prev

\* Mutant of ProviderHooks: the object given to the value context is built
\* on every render.
ProviderHooks_valueNotMemoized(isMount, r, fresh) ==
  LET g == UseCallback(isMount, r.get, fresh)
      st == UseCallback(isMount, r.set, fresh + 1)
      sb == UseCallback(isMount, r.subscribe, fresh + 2)
  IN [get |-> g, set |-> st, subscribe |-> sb, value |-> fresh + 3, deps |-> <<g, sb>>]

\* useStoreData() and the Provider body: the identities of get, set and
\* subscribe, and of the object given to StoreValueContext.
ProviderHooks(isMount, r, fresh) ==
  LET g == UseCallback(isMount, r.get, fresh)
      st == UseCallback(isMount, r.set, fresh + 1)
      sb == UseCallback(isMount, r.subscribe, fresh + 2)
      val == UseMemo(isMount, r.value, r.deps, <<g, sb>>, fresh + 3)
  IN [get |-> g, set |-> st, subscribe |-> sb, value |-> val, deps |-> <<g, sb>>]

\* The first identity after n that r does not use.
NextRefAfter(r, n) ==
  LET used == {r.get, r.set, r.subscribe, r.value} IN
  IF \E x \in used : x >= n THEN 1 + CHOOSE x \in used : \A y \in used : y <= x ELSE n

\* useContext: the value given by the enclosing Provider of factory f, 0
\* (undefined, the default of createContext) when the component has none.
UseValueContext(c, f) ==
  IF f \in CompCfg(c).under /\ provMounted[f] THEN refs[f].value ELSE 0

UseDispatchContext(c, f) ==
  IF f \in CompCfg(c).under /\ provMounted[f] THEN refs[f].set ELSE 0

\* Mutant of GetSnapshot: the selector is not applied.
GetSnapshot_noSelector(c, cur) == cur

\* getSnapshot of the read hooks.
GetSnapshot(c, cur) ==
  IF CompCfg(c).selector = "none" THEN cur ELSE Prop(cur, CompCfg(c).selector)

\* The ssrSelector a component passes as second argument of its read hook:
\* the key it projects, "state" for (state) => state, "none" when it passes
\* none.  Display and ThemeConsumer pass their selector again; CounterSsr
\* is the example's CounterDisplay with an ssrSelector of another output.
SsrSelector(c) ==
  CASE c = "Display" -> "last"
    [] c = "ThemeConsumer" -> "theme"
    [] c = "CounterSsr" -> "state"
    [] OTHER -> "none"

\* The third argument of useSyncExternalStore: undefined (given FALSE), or
\* () => ssrSelector(store.get()), of which v is the result.
GetServerSnapshot(c, cur) ==
  [given |-> SsrSelector(c) # "none",
   v |-> CASE SsrSelector(c) = "none" -> Undefined
           [] SsrSelector(c) = "state" -> cur
           [] OTHER -> Prop(cur, SsrSelector(c))]

\* render(...) of the test library and every later render are client
\* renders: none is a server render or a hydration.
Hydrating == FALSE

\* Mutant of UseSyncExternalStore: the server snapshot is used whenever one
\* is given.
UseSyncExternalStore_serverWhenGiven(hydrating, snapshot, serverSnapshot) ==
  IF serverSnapshot.given THEN serverSnapshot.v ELSE snapshot

\* What useSyncExternalStore(subscribe, getSnapshot, getServerSnapshot)
\* returns to the rendering component: getServerSnapshot() in a server
\* render or a hydration, getSnapshot() in every other render.
UseSyncExternalStore(hydrating, snapshot, serverSnapshot) ==
  IF hydrating THEN serverSnapshot.v ELSE snapshot

\* What the read hook of component c returns in a render while the cell
\* holds cur.
HookValue(c, cur) ==
  UseSyncExternalStore(Hydrating, GetSnapshot(c, cur), GetServerSnapshot(c, cur))

\* Mutant of StoreError: the displayName is not used.
StoreError_noDisplayName(hookName, f) ==
  hookName \o " must be used inside a Provider"

\* The error a hook throws without its Provider.
StoreError(hookName, f) ==
  hookName \o " must be used inside a " \o
    (IF DisplayName(f) # "" THEN DisplayName(f) ELSE "Provider")

SharedError == "useSharedState must be used inside a Provider"

\* What rendering component c throws ("" when it renders), its hooks being
\* called in the order of the component body: the read hook, then
\* useStoreDispatch.
RenderError(c) ==
  LET cfg == CompCfg(c) IN
  IF cfg.hook = "useStoreValue" /\ UseValueContext(c, cfg.of) = 0
    THEN StoreError("useStoreValue", cfg.of)
  ELSE IF cfg.hook = "useSharedValue" /\ UseValueContext(c, cfg.of) = 0
    THEN SharedError
  ELSE IF cfg.dispatch # "none" /\ UseDispatchContext(c, cfg.dispatch) = 0
    THEN StoreError("useStoreDispatch", cfg.dispatch)
  ELSE ""

\* -------------------------------------------------------------- the claims' rule
\* The update rule as the documentation states it, for an object-shaped
\* value: a function gives f(prev); a partial object sets its own keys and
\* keeps every other key.
PartialRule(prev, upd) ==
  Obj(0, [k \in (DOMAIN prev.fields) \cup (DOMAIN upd.fields) |->
            IF k \in DOMAIN upd.fields THEN upd.fields[k] ELSE prev.fields[k]])

FoldRule(prev, u) ==
  IF u.kind = "fn"
    THEN (IF ApplyFn(u.fn, prev, 0).threw THEN prev ELSE ApplyFn(u.fn, prev, 0).v)
    ELSE PartialRule(prev, u.v)

InFoldScope(cur, u) ==
  cur.t = "object" /\ (u.kind = "fn" \/ u.v.t = "object")

\* ----------------------------------------------------------------- actions
Rank(f) == CASE f = "A" -> 0 [] f = "B" -> 1 [] f = "D" -> 3 [] OTHER -> 2

\* The components of the tree under the Providers, and the components
\* rendered on their own, outside any Provider.
Under(fs) == {c \in Comps : CompCfg(c).under # {} /\ CompCfg(c).under \subseteq fs}
TreeComps == Under(StoreTest)
Strays == {c \in Comps : CompCfg(c).under = {}}

\* What the first render of tree component c commits: the snapshot its read
\* hook returned and the set its useStoreDispatch returned, once the
\* Providers have rendered with the identities rs.
FirstSnap(c) ==
  IF CompCfg(c).hook = "none" THEN Undefined
  ELSE HookValue(c, InitialState(CompCfg(c).of))

FirstSet(c, rs) ==
  IF CompCfg(c).dispatch = "none" THEN 0 ELSE rs[CompCfg(c).dispatch].set

\* Mutant of SubscribersAtMount: one context for all the factories, so that
\* every reading component subscribes to every cell.
SubscribersAtMount_oneContext(f, tree) ==
  {c \in tree : CompCfg(c).hook # "none"}

\* The components of the tree that useSyncExternalStore subscribes to the
\* cell of factory f: those whose read hook found the context of f.
SubscribersAtMount(f, tree) ==
  {c \in tree : CompCfg(c).hook # "none" /\ CompCfg(c).of = f}

\* render of a tree of store Providers: the Providers mount (useRef(initialState),
\* useRef(new Set()), the three useCallback and the useMemo of their first
\* render), every component under them renders once, and
\* useSyncExternalStore subscribes each reading component to its cell.
Mount(fs) ==
  LET tree == Under(fs)
      rs == [f \in Factories |->
               IF f \in fs
                 THEN ProviderHooks(TRUE, NoRefs, nextRef + 4 * Rank(f))
                 ELSE NoRefs]
  IN
  /\ \A f \in Factories : ~provMounted[f]
  /\ provMounted' = [f \in Factories |-> f \in fs]
  /\ provRenders' = [f \in Factories |-> IF f \in fs THEN 1 ELSE 0]
  /\ rootRenders' = 1
  /\ storeCur' = [f \in Factories |->
       IF f \in fs THEN InitialState(f) ELSE Undefined]
  /\ refs' = rs
  /\ nextRef' = nextRef + 4 * Cardinality(Factories)
  /\ mounted' = [c \in Comps |-> c \in tree]
  /\ renders' = [c \in Comps |-> IF c \in tree THEN 1 ELSE 0]
  /\ snap' = [c \in Comps |-> IF c \in tree THEN FirstSnap(c) ELSE Undefined]
  /\ gotSet' = [c \in Comps |-> IF c \in tree THEN FirstSet(c, rs) ELSE 0]
  /\ subscribers' = [f \in Factories |-> SubscribersAtMount(f, tree)]
  /\ mounts' = mounts + 1
  /\ UNCHANGED <<nextId, thrown, setCalls, lastSet, folded, inScope, pub, cell>>

\* render(<StoreTest />)
MountTree == Mount(StoreTest)

\* render(<App />) of the documented counter example.
MountCounter == Mount(CounterApp)

\* A tree with two Providers of the counter's factory, one inside the other,
\* each with a reader and a button.
NestedCounters == {"C", "D"}
MountNested == Mount(NestedCounters)

\* Mutant of Cleanup: unmounting unsubscribes nothing.
Cleanup_none(subs, gone) == subs

\* The subscriber set once the components gone have unmounted:
\* useSyncExternalStore calls the function subscribe returned for each.
Cleanup(subs, gone) == subs \ gone

\* The parent of reader c stops rendering it: c unmounts.
UnmountComponent(c) ==
  /\ mounted[c]
  /\ CompCfg(c).hook = "useStoreValue"
  /\ mounted' = [mounted EXCEPT ![c] = FALSE]
  /\ subscribers' = [f \in Factories |-> Cleanup(subscribers[f], {c})]
  /\ UNCHANGED <<provMounted, provRenders, rootRenders, storeCur, refs, nextId,
                 nextRef, renders, snap, gotSet, thrown, setCalls, lastSet,
                 folded, inScope, pub, cell, mounts>>

\* unmount() of the whole tree: the Providers and every component in it.
UnmountTree ==
  /\ \E f \in Stores : provMounted[f]
  /\ provMounted' = [f \in Factories |-> FALSE]
  /\ mounted' = [c \in Comps |-> FALSE]
  /\ subscribers' =
       [f \in Factories |-> Cleanup(subscribers[f], {c \in Comps : mounted[c]})]
  /\ UNCHANGED <<provRenders, rootRenders, storeCur, refs, nextId, nextRef,
                 renders, snap, gotSet, thrown, setCalls, lastSet, folded,
                 inScope, pub, cell, mounts>>

\* render(<TestComponent />) of a component on its own, with no Provider
\* around it: a hook that finds no context value throws during the render
\* and nothing is committed; a render that throws nothing commits and
\* subscribes like any other.
RenderStray(c) ==
  LET cfg == CompCfg(c) IN
  /\ c \in Strays
  /\ ~mounted[c]
  /\ IF RenderError(c) # ""
       THEN /\ thrown' = Error(c, RenderError(c))
            /\ UNCHANGED <<mounted, renders, snap, gotSet, subscribers>>
       ELSE /\ mounted' = [mounted EXCEPT ![c] = TRUE]
            /\ renders' = [renders EXCEPT ![c] = 1]
            /\ snap' = [snap EXCEPT ![c] =
                 IF cfg.hook = "none" THEN Undefined
                 ELSE HookValue(c, Get(cfg.of))]
            /\ gotSet' = [gotSet EXCEPT ![c] =
                 IF cfg.dispatch = "none" THEN 0
                 ELSE UseDispatchContext(c, cfg.dispatch)]
            /\ subscribers' =
                 IF cfg.hook = "none" THEN subscribers
                 ELSE [subscribers EXCEPT ![cfg.of] = @ \cup {c}]
            /\ UNCHANGED thrown
  /\ UNCHANGED <<provMounted, provRenders, rootRenders, storeCur, refs, nextId,
                 nextRef, setCalls, lastSet, folded, inScope, pub, cell, mounts>>

\* Mutant of Rerendered: every subscriber re-renders, changed snapshot or not.
Rerendered_allSubscribers(f, cur) == subscribers[f]

\* Mutant of Rerendered: every mounted component under the Provider
\* re-renders, as with a context whose value is the state itself.
Rerendered_allDescendants(f, cur) ==
  {c \in Comps : mounted[c] /\ f \in CompCfg(c).under}

\* Mutant of Rerendered: only the subscribers that passed a selector
\* re-render.
Rerendered_onlyWithSelector(f, cur) ==
  {c \in subscribers[f] :
     CompCfg(c).selector # "none" /\ ~ObjectIs(snap[c], GetSnapshot(c, cur))}

\* Mutant of Rerendered: the notification re-renders nobody.
Rerendered_nobody(f, cur) == {}

\* The subscribers whose callback finds a changed snapshot and so re-render
\* when set has written cur into the cell of store f.
Rerendered(f, cur) ==
  {c \in subscribers[f] : ~ObjectIs(snap[c], GetSnapshot(c, cur))}

\* An event handler of component c calls the set it got from
\* useStoreDispatch with update u; React then renders the components whose
\* subscription asked for it, before the next event.
HandleEvent(c, u) ==
  LET f == CompCfg(c).dispatch
      r == SetValue(Get(f), u, nextId)
      again == Rerendered(f, r.v)
  IN
  /\ mounted[c]
  /\ f # "none"
  /\ setCalls' = setCalls + 1
  /\ lastSet' = SetCall(f, u, Get(f))
  /\ IF r.threw
       THEN /\ thrown' = Error(f, "TypeError")
            /\ UNCHANGED <<storeCur, nextId, renders, snap, gotSet>>
       ELSE /\ storeCur' = [storeCur EXCEPT ![f] = r.v]
            /\ nextId' = IF r.v.id = nextId THEN nextId + 1 ELSE nextId
            /\ renders' = [x \in Comps |->
                 IF x \in again THEN renders[x] + 1 ELSE renders[x]]
            /\ snap' = [x \in Comps |->
                 IF x \in again THEN HookValue(x, r.v) ELSE snap[x]]
            /\ gotSet' = [x \in Comps |->
                 IF x \in again /\ CompCfg(x).dispatch # "none"
                   THEN UseDispatchContext(x, CompCfg(x).dispatch) ELSE gotSet[x]]
            /\ UNCHANGED thrown
  /\ inScope' = [inScope EXCEPT ![f] = @ /\ InFoldScope(Get(f), u)]
  /\ folded' = [folded EXCEPT ![f] = IF inScope'[f] THEN FoldRule(@, u) ELSE Undefined]
  /\ UNCHANGED <<provMounted, provRenders, rootRenders, subscribers, refs,
                 nextRef, mounted, pub, cell, mounts>>

\* One event of the StoreTest tree.
Dispatch(c, u) == setCalls < MaxSets /\ HandleEvent(c, u)

\* The Providers that render when the outer Provider f is rendered by its
\* parent: f itself and, unless the parent passed the same children element,
\* the Providers nested in it.
RenderingProviders(f, sameChildren) ==
  {f} \cup (IF sameChildren THEN {}
            ELSE {p \in Factories : f \in ProviderUnder(p) /\ provMounted[p]})

\* The component that renders the outer Provider f renders again (for a
\* reason of its own) and with it the Provider.  React then renders the
\* descendants: all of them when the children element is a new one, or else
\* the consumers of a context whose value changed identity.
RenderRoot(f, sameChildren) ==
  LET ps == RenderingProviders(f, sameChildren)
      newRefs == [p \in Factories |->
                    IF p \in ps
                      THEN ProviderHooks(FALSE, refs[p], nextRef + 4 * Rank(p))
                      ELSE refs[p]]
      valueChanged == {p \in ps : newRefs[p].value # refs[p].value}
      setChanged == {p \in ps : newRefs[p].set # refs[p].set}
      again == {c \in Comps :
                  /\ mounted[c]
                  /\ \/ ~sameChildren /\ f \in CompCfg(c).under
                     \/ CompCfg(c).hook # "none" /\ CompCfg(c).of \in valueChanged
                     \/ CompCfg(c).dispatch \in setChanged}
  IN
  /\ provMounted[f]
  /\ ProviderUnder(f) = {}
  /\ rootRenders < 1 + MaxProviderRenders
  /\ rootRenders' = rootRenders + 1
  /\ provRenders' = [p \in Factories |->
       IF p \in ps THEN provRenders[p] + 1 ELSE provRenders[p]]
  /\ refs' = newRefs
  /\ nextRef' = IF \E p \in ps : NextRefAfter(newRefs[p], nextRef) > nextRef
                  THEN nextRef + 4 * Cardinality(Factories) ELSE nextRef
  /\ renders' = [x \in Comps |->
       IF x \in again THEN renders[x] + 1 ELSE renders[x]]
  /\ snap' = [x \in Comps |->
       IF x \in again /\ CompCfg(x).hook # "none"
         THEN HookValue(x, Get(CompCfg(x).of)) ELSE snap[x]]
  /\ gotSet' = [x \in Comps |->
       IF x \in again /\ CompCfg(x).dispatch # "none"
         THEN newRefs[CompCfg(x).dispatch].set ELSE gotSet[x]]
  /\ UNCHANGED <<provMounted, storeCur, subscribers, nextId, mounted, thrown,
                 setCalls, lastSet, folded, inScope, pub, cell, mounts>>

\* ---------------------------------------------------------- the publisher
\* The state props a parent can pass to the Provider of publisher f.
PropSets(f) ==
  IF f = "P"
    THEN {[k \in {"theme", "language"} |-> IF k = "theme" THEN th ELSE la] :
            th \in {Str(<<"light">>), Str(<<"dark">>)},
            la \in {Str(<<"en">>), Str(<<"ua">>)}}
    ELSE {[k \in {"stringValue"} |-> v] : v \in {Str(<<>>), Str(<<"J">>)}}

\* Mutant of StateAtMount: the cell starts at the props of the mount.
StateAtMount_fromProps(f, rest) ==
  Obj(InitialState(f).id, MergeFields(Spread(InitialState(f)), rest))

\* state.current during the first render of a Provider given the state props
\* rest: useRef(initialState), the props are not read.
StateAtMount(f, rest) == InitialState(f)

\* The props object a parent passes to the Provider: the state props, the
\* children element and the flag.
Props(stable, state, children) ==
  [k \in DOMAIN state \cup {"children", "UNSAFE_stable_children"} |->
     CASE k = "children" -> Obj(children, NoFields)
       [] k = "UNSAFE_stable_children" -> Bool(stable)
       [] OTHER -> state[k]]

\* Mutant of RestOf: the whole props object is applied.
RestOf_all(props) == props

\* ({ children, UNSAFE_stable_children, ...rest }): the props without the
\* two that the Provider uses itself.
RestOf(props) ==
  [k \in DOMAIN props \ {"children", "UNSAFE_stable_children"} |-> props[k]]

\* The state props of a parent that passes only some keys of the state of
\* publisher "P".
PartialPropSets ==
  {[k \in d |-> IF k = "theme" THEN th ELSE la] :
     d \in {{"theme"}, {"language"}, {"theme", "language"}},
     th \in {Str(<<"light">>), Str(<<"dark">>)},
     la \in {Str(<<"ua">>)}}

\* Mutant of SharedSet: the cell is not written.
SharedSet_noWrite(cur, rest, fresh) == cur

\* What set(value) of useSharedState assigns to state.current:
\* { ...state.current, ...value }, a new object.
SharedSet(cur, rest, fresh) == Obj(fresh, MergeFields(Spread(cur), rest))

\* Mutant of ElementDeps: the children are a dependency with the flag too.
ElementDeps_alwaysChildren(stable, children) == <<children>>

\* The dependencies of useMemo(() => children, ...).
ElementDeps(stable, children) == IF stable THEN <<>> ELSE <<children>>

\* Mutant of EffectDeps: the prop values themselves are the dependencies.
EffectDeps_values(setRef, rest, fresh) == <<setRef, rest>>

\* The dependencies of the effect, [set, Object.values(rest)]: the second
\* is the array that this render's Object.values call returned, an object
\* of its own identity (fresh) whatever the values in it.
EffectDeps(setRef, rest, fresh) == <<setRef, fresh>>

\* useEffect(effect, deps): the effect runs after the mount render and
\* after a render in which a dependency is not Object.is the previous one.
UseEffect(isMount, prevDeps, deps) == isMount \/ deps # prevDeps

\* Mutant of RenderedBelow: the descendants render with every render of the
\* Provider.
RenderedBelow_always(isMount, prevElement, element, tree) == tree

\* The descendants that render because the Provider rendered {element}:
\* all of them at the mount and when the element is not the one of the
\* previous render, none when it is (React skips the subtree of an
\* identical element).
RenderedBelow(isMount, prevElement, element, tree) ==
  IF isMount \/ element # prevElement THEN tree ELSE {}

\* Mutant of SharedRerendered: every subscriber re-renders.
SharedRerendered_all(subs, shown, cur) == subs

\* The subscribers whose callback finds that getSnapshot() is no longer
\* what they rendered (shown) once the cell holds cur.
SharedRerendered(subs, shown, cur) ==
  {c \in subs : ~ObjectIs(shown[c], GetSnapshot(c, cur))}

\* One render of the Provider of publisher f with the props stable
\* (UNSAFE_stable_children), rest and children, and what React does before
\* the next event: the descendants render when the element is a new one,
\* reading the cell as it is; after the commit the effect, if it runs, calls
\* set(rest), and the subscribers it notifies render again when their
\* snapshot changed.
PublisherRender(f, isMount, stable, rest, children) ==
  LET prev == pub[f]
      r == ProviderHooks(isMount, refs[f], nextRef)
      mDeps == ElementDeps(stable, children)
      element == UseMemo(isMount, prev.element, prev.memoDeps, mDeps, children)
      eDeps == EffectDeps(r.set, rest, nextRef + 5)
      runs == UseEffect(isMount, prev.effectDeps, eDeps)
      tree == Under({f})
      readers == SubscribersAtMount(f, tree)
      rendered == RenderedBelow(isMount, prev.element, element, tree)
      cur == IF isMount THEN StateAtMount(f, rest) ELSE Get(f)
      shown == [c \in Comps |->
                  IF c \in rendered /\ c \in readers
                    THEN HookValue(c, cur) ELSE snap[c]]
      new == IF runs
               THEN SharedSet(cur, RestOf(Props(stable, rest, children)), nextId)
               ELSE cur
      again == IF runs THEN SharedRerendered(readers, shown, new) ELSE {}
  IN
  /\ provMounted' = [provMounted EXCEPT ![f] = TRUE]
  /\ provRenders' = [provRenders EXCEPT ![f] = IF isMount THEN 1 ELSE @ + 1]
  /\ rootRenders' = IF isMount THEN 1 ELSE rootRenders + 1
  /\ refs' = [refs EXCEPT ![f] = r]
  /\ nextRef' = nextRef + 6
  /\ storeCur' = [storeCur EXCEPT ![f] = new]
  /\ nextId' = IF runs THEN nextId + 1 ELSE nextId
  /\ subscribers' = [subscribers EXCEPT ![f] = readers]
  /\ mounted' = [c \in Comps |-> mounted[c] \/ c \in tree]
  /\ renders' = [c \in Comps |->
       (IF isMount /\ c \in tree THEN 0 ELSE renders[c])
         + (IF c \in rendered THEN 1 ELSE 0) + (IF c \in again THEN 1 ELSE 0)]
  /\ snap' = [c \in Comps |-> IF c \in again THEN HookValue(c, new) ELSE shown[c]]
  /\ pub' = [pub EXCEPT ![f] =
       [stable |-> stable, rest |-> rest, children |-> children,
        element |-> element, memoDeps |-> mDeps, effectDeps |-> eDeps,
        first |-> IF isMount THEN children ELSE prev.first,
        sets |-> IF runs THEN prev.sets + 1 ELSE prev.sets,
        applied |-> IF runs THEN PartialRule(prev.applied, Obj(0, rest))
                    ELSE prev.applied,
        pass |-> shown]]
  /\ UNCHANGED <<gotSet, thrown, setCalls, lastSet, folded, inScope, cell, mounts>>

\* render(<SharedStateTest />) or render(<SharedStateTestMemoChildren />):
\* the Provider of publisher f mounts with the flag and the state props of
\* its parent's first render, and a children element of a new identity.
MountShared(f, stable, rest) ==
  /\ \A g \in Factories : ~provMounted[g]
  /\ PublisherRender(f, TRUE, stable, rest, nextRef + 4)

\* The parent of the mounted Provider renders again, for a change of the
\* state it passes as props or of another state: it passes the flag it
\* passed before, the state props rest, and the children element of its
\* previous render (sameChildren) or a new one.
RenderShared(f, rest, sameChildren) ==
  /\ provMounted[f]
  /\ provRenders[f] < 1 + MaxPublisherRenders
  /\ PublisherRender(f, FALSE, pub[f].stable, rest,
                     IF sameChildren THEN pub[f].children ELSE nextRef + 4)

\* --------------------------------------------------------------- the cell
\* The updates passed to set of the cell.
CellUpdates ==
  {FnUpdate("identity"), ValueUpdate(Obj(0, [k \in {"first"} |-> Str(<<"a">>)]))}

\* A Set of callbacks is the sequence of its entries in insertion order.
Has(subs, k) == \E i \in 1..Len(subs) : subs[i] = k
Members(subs) == {subs[i] : i \in 1..Len(subs)}
IndexOf(subs, k) ==
  IF Has(subs, k) THEN CHOOSE i \in 1..Len(subs) : subs[i] = k ELSE 0

\* Mutant of SetAdd: the callbacks are kept in a list, one entry per call.
SetAdd_perCall(subs, k) == Append(subs, k)

\* subscribers.current.add(callback): appended unless it is an entry.
SetAdd(subs, k) == IF Has(subs, k) THEN subs ELSE Append(subs, k)

\* Mutant of SetDelete: deleting a callback that is no entry removes the
\* oldest entry.
SetDelete_oldestWhenAbsent(subs, k) ==
  IF Has(subs, k) \/ subs = <<>> THEN SelectSeq(subs, LAMBDA x : x # k)
  ELSE Tail(subs)

\* subscribers.current.delete(callback): the entry is removed, if there.
SetDelete(subs, k) == SelectSeq(subs, LAMBDA x : x # k)

\* A set call that has not returned: the value it computed, the callbacks
\* that were subscribed when it started and their order, the number of
\* entries its forEach has passed, the callbacks it invoked, in order, and
\* the callbacks that were unsubscribed since it started.
Frame(computed, subs) ==
  [computed |-> computed, startSubs |-> Members(subs), order |-> subs,
   pos |-> 0, invoked |-> <<>>, removed |-> {}]

\* Mutant of Pending: the loop goes through a copy of the entries made when
\* set started.
Pending_copyAtStart(subs, frame) ==
  IF Len(frame.invoked) < Len(frame.order)
    THEN <<frame.order[Len(frame.invoked) + 1]>> ELSE <<>>

\* The entry that forEach of a set call visits next, if any: the loop is
\* over the live Set, in insertion order.
Pending(subs, frame) ==
  IF frame.pos < Len(subs) THEN <<subs[frame.pos + 1]>> ELSE <<>>

\* Mutant of AfterDelete: a loop in progress keeps its index into the entries.
AfterDelete_keepsIndex(frames, subs, k) ==
  [i \in 1..Len(frames) |->
     [frames[i] EXCEPT !.removed = IF Has(subs, k) THEN @ \cup {k} ELSE @]]

\* What deleting entry k does to the forEach loops in progress: a loop that
\* has passed the entry has one entry less behind it, and a loop that has
\* not will not come to it.
AfterDelete(frames, subs, k) ==
  [i \in 1..Len(frames) |->
     [frames[i] EXCEPT
        !.pos = IF IndexOf(subs, k) # 0 /\ IndexOf(subs, k) <= @ THEN @ - 1 ELSE @,
        !.removed = IF Has(subs, k) THEN @ \cup {k} ELSE @]]

\* Mutant of WrittenAtStart: the callbacks run before the value is written.
WrittenAtStart_afterNotify(prev, computed) == prev

\* store.current once set has assigned it and before it notifies.
WrittenAtStart(prev, computed) == computed

\* Mutant of StartsPass: no notification for an unchanged value.
StartsPass_onlyOnChange(prev, computed) == ~ObjectIs(prev, computed)

\* set goes through the subscribers whatever the value it wrote.
StartsPass(prev, computed) == TRUE

\* Mutant of CellGet: get returns a copy of the value.
CellGet_copy(value, fresh) ==
  IF value.t = "object" THEN Obj(fresh, value.fields) ELSE value

\* get(): store.current itself.
CellGet(value, fresh) == value

\* What a get() call leaves with its caller: the value, the output of the
\* selector (state) => state.first on it, and the number of set calls made
\* before it.
Got(c) ==
  LET v == CellGet(c.value, IF c.got.v.t = "object" THEN c.got.v.id + 1 ELSE nextId) IN
  [v |-> v, first |-> Prop(v, "first"), at |-> c.sets]

\* subscribe(callback) on cell c.
CellSubscribe(c, k) ==
  [c EXCEPT !.subs = SetAdd(@, k), !.issued = @ \cup {k},
            !.lastOp = Op("subscribe", k, Has(c.subs, k))]

\* The function that subscribe(callback) returned, called on cell c.
CellUnsubscribe(c, k) ==
  [c EXCEPT !.subs = SetDelete(@, k), !.frames = AfterDelete(@, c.subs, k),
            !.lastOp = Op("unsubscribe", k, Has(c.subs, k))]

\* Mutant of MergeTarget: the update is assigned into the current value.
MergeTarget_inPlace(cur, fresh) == IF cur.t = "object" THEN cur.id ELSE fresh

\* The object that receives the merged properties in set:
\* { ...store.current, ...value } is an object literal, a new object.
MergeTarget(cur, fresh) == fresh

\* The value set assigns, given what SetValue computed for update u.
Installed(cur, u, computed) ==
  IF u.kind = "value" /\ TypeOf(u.v) = "object"
    THEN Obj(MergeTarget(cur, computed.id), computed.fields)
    ELSE computed

\* The properties of the objects once v has been built.
HeapWrite(heap, v) ==
  IF v.t = "object"
    THEN [i \in DOMAIN heap \cup {v.id} |-> IF i = v.id THEN v.fields ELSE heap[i]]
    ELSE heap

\* Mutant of Unwind: the exception is caught where it was thrown and the
\* calls in progress go on.
Unwind_caught(c, k) == [c EXCEPT !.lastOp = Op("threw", k, FALSE)]

\* An exception thrown by callback k, or by the function passed to set
\* (k = ""), is caught nowhere in set: it ends the forEach and the set call
\* and, when that call was made by a callback, the calls around it.
Unwind(c, k) == [c EXCEPT !.frames = <<>>, !.lastOp = Op("threw", k, FALSE)]

\* set(value) on cell c up to the start of its forEach; when the function
\* passed throws, nothing is assigned and the forEach is not reached.
CellSet(c, u, fresh) ==
  LET computed == Installed(c.value, u, SetValue(c.value, u, fresh).v) IN
  IF SetValue(c.value, u, fresh).threw
    THEN Unwind([c EXCEPT !.sets = @ + 1, !.update = u], "")
    ELSE
  [c EXCEPT !.value = WrittenAtStart(@, computed),
            !.computed = computed,
            !.heap = HeapWrite(@, computed),
            !.update = u,
            !.sets = @ + 1,
            !.writes = @ + 1,
            !.started = IF StartsPass(c.value, computed) THEN @ + 1 ELSE @,
            !.frames = IF StartsPass(c.value, computed)
                         THEN Append(@, Frame(computed, c.subs)) ELSE @,
            !.lastOp = Op("set", "", FALSE)]

\* What a callback does when it is invoked, after reading get(): nothing
\* more, or one call of subscribe, of an unsubscribe function or of set.
Behaviours ==
  {[op |-> "none", k |-> "", u |-> FnUpdate("")]}
    \cup {[op |-> o, k |-> k, u |-> FnUpdate("")] :
            o \in {"subscribe", "unsubscribe"}, k \in Callbacks}
    \cup {[op |-> "set", k |-> "", u |-> u] : u \in CellUpdates}

\* The updates of a caller whose function can throw: with an object in the
\* cell, prev => prev.replaceAll('i', '1') raises a TypeError.
ThrowUpdates == CellUpdates \cup {FnUpdate("iTo1")}

\* Callbacks that can throw: nothing more than get(), a throw, or a call of
\* set.
ThrowBehaviours ==
  {[op |-> o, k |-> "", u |-> FnUpdate("")] : o \in {"none", "throw"}}
    \cup {[op |-> "set", k |-> "", u |-> u] : u \in ThrowUpdates}

\* Updates that change nothing or little: prev => prev, { first: 'a' }, {},
\* null and the string 'a'.
ValueUpdates ==
  CellUpdates \cup {ValueUpdate(Obj(0, NoFields)), ValueUpdate(Null),
                    ValueUpdate(Str(<<"a">>))}

\* A callback that only reads get().
Reads == {b \in Behaviours : b.op = "none"}

\* Callbacks that change the subscriptions and call no set: besides the
\* above, a call of the unsubscribe function of a callback followed by a
\* call of subscribe with it (resubscribe).
PassBehaviours ==
  {b \in Behaviours : b.op # "set"}
    \cup {[op |-> "resubscribe", k |-> k, u |-> FnUpdate("")] : k \in Callbacks}

CellVarsUnchanged ==
  UNCHANGED <<provMounted, provRenders, rootRenders, storeCur, subscribers, refs,
              nextRef, mounted, renders, snap, gotSet, thrown, setCalls, lastSet,
              folded, inScope, pub, mounts>>

NextIdAfter(c) == IF c.value.id = nextId THEN nextId + 1 ELSE nextId

\* Calls made while no set call is in progress.
DoSubscribe(k) ==
  /\ cell.frames = <<>>
  /\ cell' = CellSubscribe(cell, k)
  /\ UNCHANGED nextId /\ CellVarsUnchanged

DoUnsubscribe(k) ==
  /\ cell.frames = <<>>
  /\ k \in cell.issued
  /\ cell' = CellUnsubscribe(cell, k)
  /\ UNCHANGED nextId /\ CellVarsUnchanged

DoGet ==
  /\ cell.frames = <<>>
  /\ cell' = [cell EXCEPT !.got = Got(cell), !.lastOp = Op("get", "", FALSE)]
  /\ UNCHANGED nextId /\ CellVarsUnchanged

DoSet(u) ==
  /\ cell.frames = <<>>
  /\ cell.sets < MaxCellSets
  /\ cell' = CellSet(cell, u, nextId)
  /\ nextId' = NextIdAfter(cell')
  /\ CellVarsUnchanged

\* The Provider unmounts and a Provider of the same factory mounts: its
\* cell is useRef(initialState), the factory's object as it is by then, and
\* useRef(new Set()).
DoRemount ==
  LET init == Obj(InitialState("A").id, cell.heap[InitialState("A").id]) IN
  /\ cell.frames = <<>>
  /\ cell' = [cell EXCEPT !.value = init, !.computed = init, !.subs = <<>>,
                          !.issued = {}, !.got = NewCell.got,
                          !.done = NewCell.done,
                          !.lastOp = Op("mount", "", FALSE)]
  /\ UNCHANGED nextId /\ CellVarsUnchanged

\* One turn of subscribers.current.forEach((callback) => callback()) of the
\* innermost set call: the next entry is invoked; the callback reads get()
\* and behaves as b.
Invoke(b) ==
  LET n == Len(cell.frames)
      top == cell.frames[n]
      k == Pending(cell.subs, top)[1]
      entered == [cell EXCEPT !.frames[n] = [top EXCEPT !.pos = @ + 1,
                                                        !.invoked = Append(@, k)],
                              !.got = Got(cell),
                              !.lastOp = Op("invoke", k, FALSE)]
  IN
  /\ cell.frames # <<>>
  /\ Pending(cell.subs, top) # <<>>
  /\ Len(top.invoked) < MaxInvocations
  /\ b.op \in {"unsubscribe", "resubscribe"} => b.k \in cell.issued
  /\ b.op = "set" => cell.sets < MaxCellSets
  /\ cell' = CASE b.op = "subscribe" -> CellSubscribe(entered, b.k)
                [] b.op = "unsubscribe" -> CellUnsubscribe(entered, b.k)
                [] b.op = "resubscribe" ->
                     CellSubscribe(CellUnsubscribe(entered, b.k), b.k)
                [] b.op = "set" -> CellSet(entered, b.u, nextId)
                [] b.op = "throw" -> Unwind(entered, k)
                [] OTHER -> entered
  /\ nextId' = NextIdAfter(cell')
  /\ CellVarsUnchanged

\* The forEach of the innermost set call has no entry left: set returns.
Return ==
  LET n == Len(cell.frames) IN
  /\ cell.frames # <<>>
  /\ Pending(cell.subs, cell.frames[n]) = <<>>
  /\ cell' = [cell EXCEPT !.frames = SubSeq(@, 1, n - 1),
                          !.done = cell.frames[n],
                          !.returned = @ + 1,
                          !.lastOp = Op("return", "", FALSE)]
  /\ UNCHANGED nextId /\ CellVarsUnchanged

\* The mounted tree of StoreTest: its event handlers and the renders its
\* parent causes.
Next ==
  \/ MountTree
  \/ \E c \in Comps, u \in Updates : Dispatch(c, u)
  \/ \E f \in Stores, sameChildren \in BOOLEAN : RenderRoot(f, sameChildren)

Spec == Init /\ [][Next]_vars

\* The same tree, and beside it the renders of components that call a hook
\* outside any Provider.
NextHooks ==
  \/ MountTree
  \/ \E c \in Comps : RenderStray(c)
  \/ \E c \in Comps, u \in Updates :
       setCalls < MaxSetsBesideStrays /\ Dispatch(c, u)
  \/ \E f \in Stores, sameChildren \in BOOLEAN : RenderRoot(f, sameChildren)

SpecHooks == Init /\ [][NextHooks]_vars

\* The tree of a publisher: its mount and the renders its parent causes.
NextPublisher ==
  \/ \E f \in Publishers, stable \in BOOLEAN :
       \E rest \in PropSets(f) : MountShared(f, stable, rest)
  \/ \E f \in Publishers, sameChildren \in BOOLEAN :
       \E rest \in PropSets(f) : RenderShared(f, rest, sameChildren)

SpecPublisher == Init /\ [][NextPublisher]_vars

\* The tree of the counter example and its event handlers.
NextCounter ==
  \/ MountCounter
  \/ \E c \in Comps, u \in Updates :
       setCalls < MaxIncrements /\ HandleEvent(c, u)

SpecCounter == Init /\ [][NextCounter]_vars

\* The Providers of both kinds: the tree of StoreTest or the tree of a
\* publisher, the renders their parents cause, and set calls in the former.
NextProviders ==
  \/ MountTree
  \/ \E c \in Comps, u \in Updates :
       setCalls < MaxSetsBesideStrays /\ Dispatch(c, u)
  \/ \E f \in Stores, sameChildren \in BOOLEAN : RenderRoot(f, sameChildren)
  \/ \E f \in Publishers, stable \in BOOLEAN :
       \E rest \in PropSets(f) : MountShared(f, stable, rest)
  \/ \E f \in Publishers, sameChildren \in BOOLEAN :
       \E rest \in PropSets(f) : RenderShared(f, rest, sameChildren)

SpecProviders == Init /\ [][NextProviders]_vars

\* The tree with two Providers of one factory: its mounts and unmounts, the
\* unmounts of its readers, and the clicks on its buttons.
NextMounts ==
  \/ mounts < MaxMounts /\ MountNested
  \/ \E c \in {"CounterDisplay", "CounterDisplayD"} : UnmountComponent(c)
  \/ UnmountTree
  \/ \E c \in Comps :
       setCalls < MaxMountSets /\ HandleEvent(c, FnUpdate("incCount"))

SpecMounts == Init /\ [][NextMounts]_vars

\* A cell, its callers and its callbacks.
NextCell ==
  \/ \E k \in Callbacks : DoSubscribe(k)
  \/ \E k \in Callbacks : DoUnsubscribe(k)
  \/ DoGet
  \/ \E u \in CellUpdates : DoSet(u)
  \/ \E b \in Behaviours : Invoke(b)
  \/ Return

SpecCell == Init /\ [][NextCell]_vars

\* A cell whose callbacks subscribe and unsubscribe callbacks while a set
\* call goes through them.
NextPass ==
  \/ \E k \in Callbacks : DoSubscribe(k)
  \/ \E u \in CellUpdates : DoSet(u)
  \/ \E b \in PassBehaviours : Invoke(b)
  \/ Return

SpecPass == Init /\ [][NextPass]_vars

\* A cell whose callers pass functions that throw and whose callbacks throw.
NextThrows ==
  \/ \E k \in Callbacks : DoSubscribe(k)
  \/ \E u \in ThrowUpdates : DoSet(u)
  \/ \E b \in ThrowBehaviours : Invoke(b)
  \/ Return
  \/ DoGet

SpecThrows == Init /\ [][NextThrows]_vars

\* The tree of publisher "P" under a parent that passes some of the state
\* keys as props.
NextProps ==
  \/ \E rest \in PartialPropSets : MountShared("P", FALSE, rest)
  \/ \E rest \in PartialPropSets, sameChildren \in BOOLEAN :
       RenderShared("P", rest, sameChildren)

SpecProps == Init /\ [][NextProps]_vars

\* A cell, the values its set calls install and the mounts of Providers of
\* its factory.
NextValues ==
  \/ DoSubscribe("k1")
  \/ \E u \in ValueUpdates : DoSet(u)
  \/ \E b \in Reads : Invoke(b)
  \/ Return
  \/ DoGet
  \/ DoRemount

SpecValues == Init /\ [][NextValues]_vars

\* ------------------------------------------------------------------ claims
\* The last set call returned (its function update, if any, did not throw).
LastSetReturned ==
  /\ lastSet.store # "none"
  /\ lastSet.update.kind = "fn" => ~ApplyFn(lastSet.update.fn, lastSet.prev, 0).threw

IsPrimitive(v) == v.t \in {"string", "number", "boolean"}

\* C1: while the value of a store is object-shaped and every set call so far
\* passed a partial object or a function, get() equals the left fold, in call
\* order, of the rule "a function gives f(prev); a partial object sets its
\* own keys to its own values and keeps every other key".
C1_FoldOfUpdates ==
  \A f \in Stores :
    (provMounted[f] /\ inScope[f]) => SameContent(Get(f), folded[f])

\* Two partial updates of different keys have both been applied.
C1_Witness ==
  /\ inScope["A"] /\ setCalls = 2 /\ lastSet.update.kind = "value"
  /\ Prop(Get("A"), "first") = Str(<<"a">>)
  /\ Prop(Get("A"), "last") = Str(<<"i">>)

\* C2: after set(f) with a function f that returns, get() is f(previous
\* value) and nothing else: only the keys of f's result are present, and a
\* primitive result is the value itself.
C2_FunctionUpdateReplaces ==
  (LastSetReturned /\ lastSet.update.kind = "fn") =>
    SameContent(Get(lastSet.store), ApplyFn(lastSet.update.fn, lastSet.prev, 0).v)

\* prev => ({count: prev.count + 1}) was applied to {first, last}: the keys
\* first and last are gone.
C2_Witness ==
  /\ lastSet.store = "A" /\ lastSet.update = FnUpdate("incCount")
  /\ DOMAIN lastSet.prev.fields = {"first", "last"}
  /\ DOMAIN Get("A").fields = {"count"}

\* C3: (as claimed) after a non-function set on a store whose value was a
\* string, number or boolean, get() is exactly the update, also for an object
\* update: nothing of the previous primitive is merged in.
C3_PrimitiveIsReplaced ==
  (lastSet.store # "none" /\ lastSet.update.kind = "value" /\ IsPrimitive(lastSet.prev))
    => SameContent(Get(lastSet.store), lastSet.update.v)

\* C4: in a store created with a primitive, after set(v) with a primitive v,
\* get() is v and every mounted consumer of the store shows v.
C4_PrimitiveSet ==
  \A f \in Stores :
    (/\ IsPrimitive(InitialState(f))
     /\ lastSet.store = f
     /\ lastSet.update.kind = "value"
     /\ IsPrimitive(lastSet.update.v))
    => /\ Get(f) = lastSet.update.v
       /\ \A c \in Comps :
            (mounted[c] /\ CompCfg(c).hook # "none" /\ CompCfg(c).of = f)
              => snap[c] = GetSnapshot(c, lastSet.update.v)

\* The primitive store was set to 'ai' and both its consumers show it.
C4_Witness ==
  /\ lastSet.store = "B" /\ lastSet.update = ValueUpdate(Str(<<"a", "i">>))
  /\ snap["InputText"] = Str(<<"a", "i">>) /\ snap["InputValue"] = Str(<<"a", "i">>)
  /\ renders["InputValue"] = 2

\* A step that is a set call.
IsSetStep == setCalls' # setCalls

\* A step in which the outer Provider is rendered by its parent with the
\* same children element: no nested Provider renders.
IsSameChildrenRender ==
  /\ rootRenders' # rootRenders
  /\ \A p \in Stores : ProviderUnder(p) # {} => provRenders'[p] = provRenders[p]

ReadsStore(c) == CompCfg(c).hook = "useStoreValue"

\* C5: a set call re-renders a mounted consumer that reads through a
\* selector if and only if the selector's output on the new value is not
\* Object.is-equal to its output on the value before the call.
C5_SelectorStep ==
  IsSetStep =>
    \A c \in Comps :
      (mounted[c] /\ ReadsStore(c) /\ CompCfg(c).selector # "none") =>
        LET before == Prop(storeCur[CompCfg(c).of], CompCfg(c).selector)
            after == Prop(storeCur'[CompCfg(c).of], CompCfg(c).selector)
        IN renders'[c] = IF ObjectIs(before, after) THEN renders[c] ELSE renders[c] + 1

C5_SelectorRerender == [][C5_SelectorStep]_vars

\* The consumer of first has re-rendered for both sets, the consumer of
\* last for none.
C5_Witness ==
  /\ setCalls = 2 /\ rootRenders = 1
  /\ renders["TextInput"] = 3 /\ renders["Display"] = 1

\* The set call of this step returned.
SetStepReturned ==
  ~(lastSet'.update.kind = "fn" /\ ApplyFn(lastSet'.update.fn, lastSet'.prev, 0).threw)

\* C6 (as claimed): every set call on the cell that returns re-renders
\* every mounted consumer of it that has no selector.
C6_OriginalStep ==
  (IsSetStep /\ SetStepReturned) =>
    \A c \in Comps :
      (/\ mounted[c] /\ ReadsStore(c) /\ CompCfg(c).selector = "none"
       /\ CompCfg(c).of = lastSet'.store)
      => renders'[c] = renders[c] + 1

C6_AmendedStep ==
  IsSetStep =>
    \A c \in Comps :
      (/\ mounted[c] /\ ReadsStore(c) /\ CompCfg(c).selector = "none"
       /\ CompCfg(c).of = lastSet'.store)
      => LET f == CompCfg(c).of IN
         /\ renders'[c] =
              IF ObjectIs(storeCur[f], storeCur'[f]) THEN renders[c] ELSE renders[c] + 1
         /\ (lastSet'.update.kind = "value" /\ TypeOf(lastSet'.update.v) = "object")
              => renders'[c] = renders[c] + 1

C7_SameSet ==
  \A c \in Comps :
    (mounted[c] /\ CompCfg(c).dispatch # "none") =>
      gotSet[c] # 0 /\ gotSet[c] = refs[CompCfg(c).dispatch].set

C7_Step ==
  /\ \A f \in Stores : provMounted[f] => refs'[f].set = refs[f].set
  /\ (IsSetStep \/ IsSameChildrenRender) =>
       \A c \in Comps :
         (mounted[c] /\ CompCfg(c).hook = "none" /\ CompCfg(c).dispatch # "none")
           => renders'[c] = renders[c]

C7_DispatchStable == [](C7_SameSet) /\ [][C7_Step]_vars

\* After sets and a render of the Provider with the same children the
\* dispatch-only component has still rendered once.
C7_Witness ==
  /\ setCalls = 2 /\ rootRenders = 2 /\ provRenders["A"] = 2 /\ provRenders["B"] = 1
  /\ mounted["ResetButton"] /\ renders["ResetButton"] = 1
  /\ renders["Whole"] > 1

\* C8: a set call renders neither a Provider, nor the component that renders
\* the Provider, nor a descendant that does not call useStoreValue; as long
\* as the parent has not rendered again they all stay at one render.
C8_Step ==
  IsSetStep =>
    /\ provRenders' = provRenders
    /\ rootRenders' = rootRenders
    /\ \A c \in Comps : ~ReadsStore(c) => renders'[c] = renders[c]

C8_AtMount ==
  rootRenders = 1 =>
    /\ \A f \in StoreTest : provRenders[f] = 1
    /\ \A c \in TreeComps : ~ReadsStore(c) => renders[c] = 1

C8_NoOtherRerender == [](C8_AtMount) /\ [][C8_Step]_vars

C8_Witness ==
  /\ setCalls = 2 /\ rootRenders = 1 /\ provRenders["A"] = 1
  /\ renders["FormContainer"] = 1 /\ renders["ResetButton"] = 1
  /\ renders["Whole"] = 3

\* C9: a component that calls useStoreValue or useStoreDispatch with no
\* Provider of that store around it never mounts and is never subscribed;
\* the render throws '<hook> must be used inside a <displayName or
\* Provider>' and changes nothing else.
StoreStrays == {c \in Strays : CompCfg(c).hook # "useSharedValue"}

C9_Thrown ==
  /\ \A c \in StoreStrays : ~mounted[c] /\ \A f \in Factories : c \notin subscribers[f]
  /\ thrown.by = "StrayValue" =>
       thrown.msg = "useStoreValue must be used inside a StoreContext"
  /\ thrown.by = "StrayDispatchA" =>
       thrown.msg = "useStoreDispatch must be used inside a StoreContext"
  /\ thrown.by = "StrayValueB" =>
       thrown.msg = "useStoreValue must be used inside a Provider"
  /\ thrown.by = "StrayDispatch" =>
       thrown.msg = "useStoreDispatch must be used inside a Provider"

C9_Step ==
  (thrown' # thrown /\ thrown'.by \in StoreStrays) =>
    UNCHANGED <<storeCur, subscribers, mounted, renders, snap, gotSet, setCalls,
                provRenders, refs>>

C9_HookOutsideProvider == [](C9_Thrown) /\ [][C9_Step]_vars

\* The hook threw while a Provider of its store was mounted elsewhere.
C9_Witness ==
  /\ thrown = Error("StrayValue", "useStoreValue must be used inside a StoreContext")
  /\ provMounted["A"] /\ subscribers["A"] # {} /\ setCalls = 1

\* C10 (as claimed): useSharedValue without a Provider throws an error whose
\* message contains 'useSharedValue must be used inside a Provider'.  The
\* message thrown has the length of that text, so containing it is being it.
C10_SharedValueMessage ==
  thrown.by = "StrayShared" =>
    thrown.msg = "useSharedValue must be used inside a Provider"

\* A step in which the mounted Provider of publisher f renders again.
IsProviderRerender(f) == provMounted[f] /\ provRenders'[f] # provRenders[f]

\* The mounted consumers of publisher f.
Consumers(f) ==
  {c \in Comps : mounted[c] /\ CompCfg(c).hook = "useSharedValue" /\ CompCfg(c).of = f}

\* The mounted descendants of the Provider of f that do not call
\* useSharedValue.
NonConsumers(f) ==
  {c \in Comps : mounted[c] /\ f \in CompCfg(c).under /\ CompCfg(c).hook = "none"}

\* Consumer c reads nothing that differs between the props before and the
\* props after the step: it has a selector and the prop it selects is the
\* same.
SelectsUnchanged(c, f) ==
  /\ CompCfg(c).selector # "none"
  /\ ObjectIs(pub'[f].rest[CompCfg(c).selector], pub[f].rest[CompCfg(c).selector])

\* What consumer c has rendered (shown) is what its selector gives for the
\* props rest, or an object of exactly these props if it has no selector.
Displays(c, shown, rest) ==
  IF CompCfg(c).selector = "none"
    THEN shown.t = "object" /\ shown.fields = rest
    ELSE shown = rest[CompCfg(c).selector]

\* After the step consumer c shows the props of the step.
ShowsNewProps(c, f) == Displays(c, snap'[c], pub'[f].rest)

\* The Provider rendered another element than in its previous render.
ElementReplaced(f) == pub'[f].element # pub[f].element

\* C11 (as claimed): when a mounted publisher Provider re-renders with a
\* prop value that differs from the previous render, every mounted consumer
\* whose selector reads that prop and every consumer with no selector
\* re-renders and shows the new value, and a consumer whose selector output
\* is unchanged does not re-render.
C11_OriginalStep ==
  \A f \in Publishers :
    (IsProviderRerender(f) /\ pub'[f].rest # pub[f].rest) =>
      \A c \in Consumers(f) :
        IF SelectsUnchanged(c, f)
          THEN renders'[c] = renders[c]
          ELSE renders'[c] > renders[c] /\ ShowsNewProps(c, f)

C11_Original == [][C11_OriginalStep]_vars

\* C11 (amended): on such a re-render every consumer whose selector reads a
\* changed prop and every consumer with no selector re-renders for the new
\* value and shows it; a consumer whose selector output is unchanged keeps
\* what it shows and does not re-render as long as the Provider renders the
\* element of its previous render; when the element is replaced (a new
\* children reference without UNSAFE_stable_children) every consumer
\* renders once more, as a descendant.
C11_AmendedStep ==
  \A f \in Publishers :
    (IsProviderRerender(f) /\ pub'[f].rest # pub[f].rest) =>
      \A c \in Consumers(f) :
        LET asDescendant == IF ElementReplaced(f) THEN 1 ELSE 0 IN
        IF SelectsUnchanged(c, f)
          THEN renders'[c] = renders[c] + asDescendant /\ snap'[c] = snap[c]
          ELSE renders'[c] = renders[c] + asDescendant + 1 /\ ShowsNewProps(c, f)

C11_PropChangeRerender == [][C11_AmendedStep]_vars

\* The theme consumer has rendered for a change of theme in a re-render of
\* the Provider that the language consumer did not render for.
C11_Witness ==
  /\ provRenders["P"] = 3 /\ pub["P"].element = pub["P"].first
  /\ renders["ThemeConsumer"] = 3 /\ renders["LangConsumer"] = 1
  /\ snap["ThemeConsumer"] = pub["P"].rest["theme"]

\* C12 (as claimed): the Provider calls set and notifies the subscribers
\* only after a render in which a prop value differs from the previous
\* render; a re-render with every prop value unchanged leaves the cell and
\* the number of set calls as they are and re-renders no consumer.
C12_SetOnlyOnChangeStep ==
  \A f \in Publishers :
    IsProviderRerender(f) =>
      IF pub'[f].rest = pub[f].rest
        THEN /\ pub'[f].sets = pub[f].sets
             /\ storeCur'[f] = storeCur[f]
             /\ ~ElementReplaced(f) => \A c \in Consumers(f) : renders'[c] = renders[c]
        ELSE pub'[f].sets = pub[f].sets + 1

C12_SetOnlyOnChange == [][C12_SetOnlyOnChangeStep]_vars

\* C13: the cell of a publisher changes only in a render of its own
\* Provider, by the one set call of that render; no mounted component holds
\* the set of a publisher; and the cell holds the initial state merged with
\* the props the Provider has applied so far, in order.
C13_CellIsFold ==
  \A f \in Publishers :
    /\ provMounted[f] => SameContent(Get(f), pub[f].applied)
    /\ \A c \in Comps : mounted[c] /\ provMounted[f] => gotSet[c] # refs[f].set

C13_Step ==
  \A f \in Publishers :
    storeCur'[f] # storeCur[f] =>
      /\ provRenders'[f] = provRenders[f] + 1
      /\ pub'[f].sets = pub[f].sets + 1
      /\ storeCur'[f].fields = MergeFields(Spread(InitialState(f)), pub'[f].rest)

C13_OnlyProviderWrites == [](C13_CellIsFold) /\ [][C13_Step]_vars

\* Three renders have applied props; the cell holds the last ones, which
\* are not the initial state.
C13_Witness ==
  /\ pub["P"].sets = 3
  /\ Prop(Get("P"), "theme") = Str(<<"dark">>)
  /\ Prop(Get("P"), "language") = Str(<<"ua">>)
  /\ Get("P").fields = pub["P"].rest

\* C14: with UNSAFE_stable_children the element the Provider renders is the
\* children of its mount render, whatever children and state props the
\* later renders were given.
C14_StableElement ==
  \A f \in Publishers :
    (provMounted[f] /\ pub[f].stable) => pub[f].element = pub[f].first

\* A later render was given another children reference and other state
\* props than the mount render.
C14_Witness ==
  /\ pub["P"].stable /\ provRenders["P"] = 3
  /\ pub["P"].children # pub["P"].first
  /\ pub["P"].element = pub["P"].first
  /\ pub["P"].rest["theme"] = Str(<<"dark">>)

\* C15: with UNSAFE_stable_children the descendants that do not call
\* useSharedValue stay at the one render of the mount through every
\* re-render of the Provider, and the consumers show the props of the
\* Provider's last render.
C15_StableDescendants ==
  \A f \in Publishers :
    (provMounted[f] /\ pub[f].stable) =>
      /\ \A c \in NonConsumers(f) : renders[c] = 1
      /\ \A c \in Consumers(f) : Displays(c, snap[c], pub[f].rest)

\* Re-renders with new children and a new theme: the wrapper has rendered
\* once, the theme consumer for every change.
C15_Witness ==
  /\ pub["P"].stable /\ provRenders["P"] = 3
  /\ pub["P"].children # pub["P"].first
  /\ renders["WrapperComponent0"] = 1 /\ renders["NestedComponent0"] = 1
  /\ renders["ThemeConsumer"] = 3 /\ snap["ThemeConsumer"] = Str(<<"light">>)

\* C16: without UNSAFE_stable_children the element the Provider renders is
\* the children of that render, replaced exactly when the children differ
\* from the previous render's; while every render was given the children
\* of the mount render, the descendants that do not call useSharedValue
\* stay at one render and the consumers show the props of the last render.
C16_Element ==
  \A f \in Publishers :
    (provMounted[f] /\ ~pub[f].stable) =>
      /\ pub[f].element = pub[f].children
      /\ pub[f].children = pub[f].first =>
           /\ \A c \in NonConsumers(f) : renders[c] = 1
           /\ \A c \in Consumers(f) : Displays(c, snap[c], pub[f].rest)

C16_Step ==
  \A f \in Publishers :
    (IsProviderRerender(f) /\ ~pub[f].stable) =>
      /\ ElementReplaced(f) <=> pub'[f].children # pub[f].children
      /\ \A c \in NonConsumers(f) :
           renders'[c] = IF ElementReplaced(f) THEN renders[c] + 1 ELSE renders[c]

C16_ChildrenElement == [](C16_Element) /\ [][C16_Step]_vars

\* The memoized children were passed in three renders: the wrappers have
\* rendered once, the consumer shows the new string.
C16_Witness ==
  /\ ~pub["S"].stable /\ provRenders["S"] = 3
  /\ pub["S"].children = pub["S"].first
  /\ renders["WrapperComponent1"] = 1 /\ renders["NestedComponent1"] = 1
  /\ snap["StringConsumer"].fields = pub["S"].rest
  /\ pub["S"].rest["stringValue"] = Str(<<"J">>)

\* The mounted consumers of publisher f that pass no selector.
WholeConsumers(f) == {c \in Consumers(f) : CompCfg(c).selector = "none"}

\* C17 (as claimed): a consumer with no selector has rendered exactly once
\* more than its Provider: twice after the mount, 2 + k times after k
\* further renders of the Provider.
C17_Original ==
  \A f \in Publishers :
    \A c \in WholeConsumers(f) : renders[c] = 1 + provRenders[f]

\* C17 (amended): every render of the Provider, with changed props or not,
\* is followed by one render of a consumer with no selector, for the set of
\* the Provider's effect, and a render that replaces the element is
\* accompanied by one more, as a descendant; as long as the element of the
\* mount is kept the consumer has rendered once more than the Provider.
C17_Kept ==
  \A f \in Publishers :
    \A c \in WholeConsumers(f) :
      pub[f].element = pub[f].first => renders[c] = 1 + provRenders[f]

C17_Step ==
  \A f \in Publishers :
    IsProviderRerender(f) =>
      \A c \in WholeConsumers(f) :
        renders'[c] = renders[c] + 1 + (IF ElementReplaced(f) THEN 1 ELSE 0)

C17_OncePerProviderRender == [](C17_Kept) /\ [][C17_Step]_vars

\* The Provider has rendered three times with the props of the initial
\* state and the same children: the consumer has rendered four times.
C17_Witness ==
  /\ provRenders["S"] = 3 /\ pub["S"].sets = 3
  /\ pub["S"].element = pub["S"].first
  /\ Get("S").fields = InitialState("S").fields
  /\ renders["StringConsumer"] = 4

\* The counter store holds {count: n} after n set calls.  A set call adds at
\* most one to count, and only prev => ({count: prev.count + 1}) adds one,
\* so this is the case exactly when every call so far was that function.
CountedUp ==
  /\ provMounted["C"]
  /\ Get("C").t = "object"
  /\ Get("C").fields = [k \in {"count"} |-> Num(setCalls)]

IsCount(v) == v.t = "number" /\ v.s = <<>>

\* C18: from {count: 0}, n calls of set(prev => ({count: prev.count + 1})),
\* one per event, leave the consumer that selects count and the consumer
\* with no selector at n renders more than the mount, both showing n, and
\* the component that only dispatches at its mount render; each such call
\* on a numeric count renders the two consumers exactly once.
C18_Counted ==
  CountedUp =>
    /\ renders["CounterDisplay"] = 1 + setCalls
    /\ renders["CounterState"] = 1 + setCalls
    /\ snap["CounterDisplay"] = Num(setCalls)
    /\ Prop(snap["CounterState"], "count") = Num(setCalls)
    /\ renders["CounterUpdate"] = 1

C18_Step ==
  (/\ IsSetStep
   /\ lastSet'.store = "C"
   /\ lastSet'.update = FnUpdate("incCount")
   /\ IsCount(Prop(lastSet'.prev, "count")))
  => /\ Get("C")'.fields =
          [k \in {"count"} |-> Num(Prop(lastSet'.prev, "count").n + 1)]
     /\ renders'["CounterDisplay"] = renders["CounterDisplay"] + 1
     /\ renders'["CounterState"] = renders["CounterState"] + 1
     /\ snap'["CounterDisplay"] = Num(Prop(lastSet'.prev, "count").n + 1)
     /\ ObjectIs(snap'["CounterState"], Get("C")')
     /\ renders'["CounterUpdate"] = renders["CounterUpdate"]

C18_CountScenario == [](C18_Counted) /\ [][C18_Step]_vars

\* Three increments: both consumers have rendered four times and show 3.
C18_Witness ==
  /\ CountedUp /\ setCalls = 3
  /\ renders["CounterDisplay"] = 4 /\ renders["CounterState"] = 4
  /\ snap["CounterDisplay"] = Num(3) /\ renders["CounterUpdate"] = 1

\* Component c calls no hook of another store than g.
ConsumesOnly(c, g) ==
  /\ CompCfg(c).hook = "none" \/ CompCfg(c).of = g
  /\ CompCfg(c).dispatch \in {"none", g}
  /\ CompCfg(c).hook # "none" \/ CompCfg(c).dispatch # "none"

\* C19: the cells of two stores are apart, also with one Provider nested
\* in the other: the subscribers of a cell are consumers of its own store,
\* and a set call on one store leaves the value of every other store and
\* the renders and the display of every component that consumes only
\* another store as they are.
C19_OwnSubscribers ==
  \A f \in Stores :
    /\ \A c \in subscribers[f] : CompCfg(c).of = f
    /\ \A g \in Stores \ {f} : subscribers[f] \cap subscribers[g] = {}

C19_Step ==
  IsSetStep =>
    \A g \in Stores \ {lastSet'.store} :
      /\ storeCur'[g] = storeCur[g]
      /\ subscribers'[g] = subscribers[g]
      /\ \A c \in Comps :
           (mounted[c] /\ ConsumesOnly(c, g)) =>
             renders'[c] = renders[c] /\ snap'[c] = snap[c]

C19_StoresIndependent == [](C19_OwnSubscribers) /\ [][C19_Step]_vars

\* One set on each store: the consumer of each has rendered for its own
\* store's set and not for the other's.
C19_Witness ==
  /\ setCalls = 2 /\ rootRenders = 1
  /\ renders["Whole"] = 2 /\ renders["InputValue"] = 2
  /\ Get("A") # InitialState("A") /\ Get("B") # InitialState("B")

\* C20: between events every mounted consumer of a store shows what its
\* selector gives for the value get() returns (get() itself with no
\* selector), whatever set calls came before.
C20_ShowsCurrent ==
  \A c \in Comps :
    (mounted[c] /\ ReadsStore(c)) =>
      ObjectIs(snap[c], GetSnapshot(c, Get(CompCfg(c).of)))

\* After two set calls on the object store the three consumers show the
\* value of the second.
C20_Witness ==
  /\ setCalls = 2 /\ lastSet.store = "A" /\ lastSet.prev # InitialState("A")
  /\ Get("A") # lastSet.prev
  /\ snap["TextInput"] = Str(<<"a">>) /\ snap["Display"] = Str(<<"i">>)
  /\ snap["Whole"] = Get("A")

\* The mounted components that pass an ssrSelector.
PassSsrSelector == {c \in Comps : mounted[c] /\ SsrSelector(c) # "none"}

\* C21: in the client renders a component that passes an ssrSelector
\* shows selector(get()), never the ssrSelector's output, and shows and
\* renders what the same component without ssrSelector shows and renders.
C21_SsrSelectorUnused ==
  /\ \A c \in PassSsrSelector :
       ObjectIs(snap[c], GetSnapshot(c, Get(CompCfg(c).of)))
  /\ mounted["CounterSsr"] =>
       /\ snap["CounterSsr"] = snap["CounterDisplay"]
       /\ renders["CounterSsr"] = renders["CounterDisplay"]

\* After three increments the component with the ssrSelector shows the
\* count, which its ssrSelector would not give.
C21_Witness ==
  /\ mounted["CounterSsr"] /\ setCalls = 3
  /\ renders["CounterSsr"] = 4 /\ snap["CounterSsr"] = Num(3)
  /\ GetServerSnapshot("CounterSsr", Get("C")).v # snap["CounterSsr"]

\* Number of times callback k is in the sequence of invocations.
Times(invoked, k) == Cardinality({i \in 1..Len(invoked) : invoked[i] = k})

\* C22 as stated: the set call that returned last has invoked every callback
\* that was subscribed when it started exactly once.
C22_Original ==
  \A k \in cell.done.startSubs : Times(cell.done.invoked, k) = 1

\* C22: the set call that returned last has invoked exactly once, before it
\* returned, every callback that was subscribed when it started and was not
\* unsubscribed while it ran, whatever calls of set, subscribe and
\* unsubscribe the callbacks made; the only callbacks it invoked are those
\* and the ones subscribed or unsubscribed while it ran.
C22_InvokedUnlessUnsubscribed ==
  /\ \A k \in cell.done.startSubs \ cell.done.removed :
        Times(cell.done.invoked, k) = 1
  /\ \A k \in Callbacks :
        Times(cell.done.invoked, k) > 1 => k \in cell.done.removed
  /\ \A i \in 1..Len(cell.frames) :
        \A k \in cell.frames[i].startSubs \ cell.frames[i].removed :
          Times(cell.frames[i].invoked, k) <= 1

\* Two callbacks were subscribed when a set call started, the first one
\* unsubscribed itself when invoked, and the call returned after invoking
\* both once.
C22_Witness ==
  /\ cell.lastOp.op = "return"
  /\ cell.done.startSubs = Callbacks
  /\ cell.done.removed = {"k1"}
  /\ cell.done.invoked = <<"k1", "k2">>

\* C23: once set has been called the cell's value is the value the latest
\* set call computed, and a get() made since that call, inside a subscriber
\* callback or after the call returned, returned that value.
C23_GetSeesLatestSet ==
  cell.sets > 0 =>
    /\ ObjectIs(cell.value, cell.computed)
    /\ cell.got.at = cell.sets => ObjectIs(cell.got.v, cell.computed)

\* A callback invoked by the second set call, which merged first: 'a', has
\* read get() and got the merged object.
C23_Witness ==
  /\ cell.frames # <<>>
  /\ cell.lastOp.op = "invoke"
  /\ cell.sets = 2
  /\ cell.got.at = 2
  /\ cell.got.first = Str(<<"a">>)
  /\ ~ObjectIs(cell.got.v, InitialState("A"))

\* C24: a call of the function that subscribe(k) returned leaves k out of
\* the subscriber set and every other callback as it was, in the same
\* order; when k was not an entry, after an earlier call or otherwise, the
\* call changes neither the set nor the value.
C24_Step ==
  cell'.lastOp.op = "unsubscribe" =>
    LET k == cell'.lastOp.k IN
    /\ ~Has(cell'.subs, k)
    /\ \A j \in Callbacks \ {k} :
          /\ Has(cell'.subs, j) <=> Has(cell.subs, j)
          /\ \A i \in Callbacks \ {k} :
                (Has(cell.subs, i) /\ Has(cell.subs, j)) =>
                  (IndexOf(cell'.subs, i) < IndexOf(cell'.subs, j)
                     <=> IndexOf(cell.subs, i) < IndexOf(cell.subs, j))
    /\ ~Has(cell.subs, k) => cell'.subs = cell.subs
    /\ ObjectIs(cell'.value, cell.value)

C24_UnsubscribeIdempotent == [][C24_Step]_vars

\* The unsubscribe function of k1 has been called while k1 was not
\* registered, and the other subscriber is still in the set.
C24_Witness ==
  /\ cell.lastOp = Op("unsubscribe", "k1", FALSE)
  /\ cell.subs = <<"k2">>

\* C29: after k calls of set there have been k writes of the value and k
\* notification passes have started, one per call whatever the value
\* written; every pass has ended or belongs to a call that has not returned,
\* the passes in progress are nested in call order, and a call that is not
\* made from a callback starts after every earlier pass has ended.
C29_Counts ==
  /\ cell.writes = cell.sets
  /\ cell.started = cell.sets
  /\ cell.returned + Len(cell.frames) = cell.sets

C29_Step ==
  (cell'.lastOp.op = "set" /\ cell'.sets = cell.sets + 1) =>
    /\ Len(cell'.frames) = Len(cell.frames) + 1
    /\ cell'.frames[Len(cell'.frames)].startSubs = Members(cell'.subs)
    /\ cell'.frames[Len(cell'.frames)].invoked = <<>>
    /\ cell.frames = <<>> => cell.returned = cell.sets

C29_NoCoalescing == [](C29_Counts) /\ [][C29_Step]_vars

\* Two set calls that left the value as it was have each gone through both
\* subscribers and returned.
C29_Witness ==
  /\ cell.sets = 2
  /\ cell.returned = 2
  /\ cell.frames = <<>>
  /\ ObjectIs(cell.value, InitialState("A"))
  /\ cell.done.invoked = <<"k1", "k2">>

\* C30: a get() that follows another get() with no set call between them,
\* from a caller or from inside a callback, returns the identical reference,
\* and so does the selector (state) => state.first applied to it.
C30_Step ==
  (cell.got.at >= 0 /\ cell'.got.at = cell.got.at) =>
    /\ ObjectIs(cell'.got.v, cell.got.v)
    /\ ObjectIs(cell'.got.first, cell.got.first)

\* Between set calls the value of the cell is one reference.
C30_ValueStep ==
  cell'.sets = cell.sets => ObjectIs(cell'.value, cell.value)

C30_StableSnapshot == [][C30_Step /\ C30_ValueStep]_vars

\* The second callback of a pass has read get() after the first one did,
\* with no set call between the two reads.
C30_Witness ==
  /\ Len(cell.frames) = 1
  /\ cell.frames[1].invoked = <<"k1", "k2">>
  /\ cell.lastOp.op = "invoke"
  /\ cell.sets = 1
  /\ cell.got.at = 1
  /\ cell.got.first = Str(<<"a">>)

\* C28: in the render pass of the Provider's mount every consumer reads the
\* factory's initial state, whatever the props of the mount, and after the
\* effect of any render of the Provider every key supplied as a prop holds
\* in the cell the value of that render's prop.
C28_InitialThenProps ==
  \A f \in Publishers :
    provMounted[f] =>
      /\ provRenders[f] = 1 =>
            \A c \in Consumers(f) :
              ObjectIs(pub[f].pass[c], GetSnapshot(c, InitialState(f)))
      /\ \A k \in DOMAIN pub[f].rest : Prop(Get(f), k) = pub[f].rest[k]

\* The Provider mounted with theme 'dark': the theme consumer rendered
\* 'light' in the first pass and 'dark' after the effect.
C28_Witness ==
  /\ provMounted["P"]
  /\ provRenders["P"] = 1
  /\ pub["P"].rest["theme"] = Str(<<"dark">>)
  /\ pub["P"].pass["ThemeConsumer"] = Str(<<"light">>)
  /\ snap["ThemeConsumer"] = Str(<<"dark">>)
  /\ renders["ThemeConsumer"] = 2

\* In a step the Provider of f keeps the identities of get, set, subscribe
\* and of the value-context object, and its subscriber set.
KeepsCell(f) ==
  /\ refs'[f].get = refs[f].get
  /\ refs'[f].set = refs[f].set
  /\ refs'[f].subscribe = refs[f].subscribe
  /\ refs'[f].value = refs[f].value
  /\ subscribers'[f] = subscribers[f]

\* C26 as stated: a render of a mounted Provider leaves the value of its
\* cell, its subscriber set and the identities of get, set, subscribe and of
\* the value-context object as they were.
C26_OriginalStep ==
  \A f \in Factories :
    IsProviderRerender(f) => KeepsCell(f) /\ ObjectIs(storeCur'[f], storeCur[f])

C26_Original == [][C26_OriginalStep]_vars

\* C26: a render of a mounted Provider keeps the subscriber set and the
\* identities of get, set, subscribe and of the value-context object.  The
\* Provider of a store leaves the value as it was; the Provider of a
\* publisher replaces it by the merge of its props into it, never by the
\* initial state.  A consumer renders in the step only below a new children
\* element or, under a publisher, because its snapshot changed.
C26_Step ==
  /\ \A f \in Stores :
        IsProviderRerender(f) =>
          /\ KeepsCell(f)
          /\ ObjectIs(storeCur'[f], storeCur[f])
          /\ IsSameChildrenRender =>
                \A c \in Comps : mounted[c] => renders'[c] = renders[c]
  /\ \A f \in Publishers :
        IsProviderRerender(f) =>
          /\ KeepsCell(f)
          /\ storeCur'[f].t = "object"
          /\ storeCur'[f].fields = MergeFields(Spread(storeCur[f]), pub'[f].rest)
          /\ ~ElementReplaced(f) =>
                \A c \in Consumers(f) :
                  renders'[c] # renders[c] => ~ObjectIs(snap'[c], snap[c])

C26_CellPerMount == [][C26_Step]_vars

\* The Provider of store A has rendered a second time with the same
\* children, a set call has changed its value, and no component below it
\* has rendered more than the set call made it.
C26_Witness ==
  /\ provRenders["A"] = 2 /\ provRenders["B"] = 1
  /\ setCalls = 1
  /\ ~ObjectIs(storeCur["A"], InitialState("A"))
  /\ subscribers["A"] # {}
  /\ renders["ResetButton"] = 1 /\ renders["FormContainer"] = 1

\* The mounted readers of the cell of Provider f.
MountedReaders(f) ==
  {c \in Comps : mounted[c] /\ ReadsStore(c) /\ CompCfg(c).of = f}

\* C25: the subscriber set of every cell holds exactly the mounted readers
\* of its Provider, so it is empty once they have all unmounted, and a
\* reader that is and stays unmounted is not rendered by any later step,
\* set calls included.
C25_Subscribed ==
  \A f \in Stores :
    /\ subscribers[f] = MountedReaders(f)
    /\ MountedReaders(f) # {} => provMounted[f]
    /\ (\A c \in Comps : ~mounted[c]) => subscribers[f] = {}

C25_Step ==
  \A c \in Comps :
    (~mounted[c] /\ ~mounted'[c]) =>
      renders'[c] = renders[c] /\ ObjectIs(snap'[c], snap[c])

C25_MountedIffSubscribed == [](C25_Subscribed) /\ [][C25_Step]_vars

\* The reader of the outer Provider unmounted before a click: it still
\* holds the count 0 of its only render while the cell and the other reader
\* of that Provider have the count 1.
C25_Witness ==
  /\ provMounted["C"]
  /\ ~mounted["CounterDisplay"] /\ mounted["CounterState"]
  /\ renders["CounterDisplay"] = 1 /\ snap["CounterDisplay"] = Num(0)
  /\ Prop(Get("C"), "count") = Num(1)
  /\ renders["CounterState"] = 2
  /\ subscribers["C"] = {"CounterState", "CounterSsr"}

\* C27: of two Providers of one factory, one inside the other, each has its
\* own cell: a reader and a button inside both are bound to the inner one,
\* those inside the outer one alone to the outer one; a set through one
\* changes neither the value of the other nor renders its readers; and a
\* mount after an unmount starts both cells at the factory's initial state
\* with new get, set and subscribe and this mount's readers as the only
\* subscribers, whatever was set before.
C27_Bound ==
  /\ mounted["CounterDisplayD"] =>
       /\ snap["CounterDisplayD"] = Prop(Get("D"), "count")
       /\ "CounterDisplayD" \in subscribers["D"] \ subscribers["C"]
  /\ mounted["CounterDisplay"] =>
       /\ snap["CounterDisplay"] = Prop(Get("C"), "count")
       /\ "CounterDisplay" \in subscribers["C"] \ subscribers["D"]
  /\ mounted["CounterUpdateD"] => gotSet["CounterUpdateD"] = refs["D"].set
  /\ mounted["CounterUpdate"] => gotSet["CounterUpdate"] = refs["C"].set
  /\ (provMounted["C"] /\ provMounted["D"]) => refs["C"].set # refs["D"].set

C27_SetStep ==
  IsSetStep =>
    \A g \in Stores \ {lastSet'.store} :
      /\ ObjectIs(storeCur'[g], storeCur[g])
      /\ subscribers'[g] = subscribers[g]
      /\ \A c \in subscribers[g] :
            renders'[c] = renders[c] /\ ObjectIs(snap'[c], snap[c])

C27_MountStep ==
  mounts' # mounts =>
    \A f \in NestedCounters :
      /\ provMounted'[f]
      /\ ObjectIs(storeCur'[f], InitialState(FactoryOf(f)))
      /\ subscribers'[f] = MountedReaders(f)'
      /\ \A c \in subscribers'[f] : renders'[c] = 1 /\ snap'[c] = GetSnapshot(c, InitialState(f))
      /\ refs'[f].set # refs[f].set /\ refs'[f].get # refs[f].get
      /\ refs'[f].subscribe # refs[f].subscribe

C27_CellPerProviderMount ==
  [](C27_Bound) /\ [][C27_SetStep /\ C27_MountStep]_vars

\* After a click in the first mount, the tree was unmounted and mounted
\* again, and a click on the inner button has set the inner cell to 1: the
\* outer cell and its reader are at the initial 0.
C27_Witness ==
  /\ mounts = 2 /\ setCalls = 2
  /\ provMounted["C"] /\ provMounted["D"]
  /\ Prop(Get("D"), "count") = Num(1) /\ ObjectIs(Get("C"), InitialState("C"))
  /\ snap["CounterDisplayD"] = Num(1) /\ renders["CounterDisplayD"] = 2
  /\ snap["CounterDisplay"] = Num(0) /\ renders["CounterDisplay"] = 1

\* A step in which the innermost set call invokes a callback, and that
\* callback.
IsInvocation ==
  /\ cell.frames # <<>>
  /\ Len(cell'.frames) >= Len(cell.frames)
  /\ Len(cell'.frames[Len(cell.frames)].invoked)
       = Len(cell.frames[Len(cell.frames)].invoked) + 1

Invoked ==
  LET inv == cell'.frames[Len(cell.frames)].invoked IN inv[Len(inv)]

\* Every callback a set call invokes is in the subscriber set when it is
\* invoked: none whose unsubscribe function was called and that was not
\* subscribed again, also when the call came from another callback of the
\* same pass before the pass reached it.
C34_InvokedWhileSubscribed == IsInvocation => Has(cell.subs, Invoked)

\* C34 as stated: besides, a callback that was subscribed after a set call
\* started is invoked at most once by that call.
C34_OriginalOnce ==
  /\ \A k \in Callbacks \ cell.done.startSubs : Times(cell.done.invoked, k) <= 1
  /\ \A i \in 1..Len(cell.frames) :
        \A k \in Callbacks \ cell.frames[i].startSubs :
          Times(cell.frames[i].invoked, k) <= 1

C34_Original == [](C34_OriginalOnce) /\ [][C34_InvokedWhileSubscribed]_vars

\* C34: a set call invokes only callbacks that are subscribed at that
\* moment, and it invokes a callback subscribed after it started at most
\* once unless that callback was unsubscribed and subscribed again while the
\* call ran.
C34_Once ==
  /\ \A k \in Callbacks \ cell.done.startSubs :
        Times(cell.done.invoked, k) > 1 => k \in cell.done.removed
  /\ \A i \in 1..Len(cell.frames) :
        \A k \in Callbacks \ cell.frames[i].startSubs :
          Times(cell.frames[i].invoked, k) > 1 => k \in cell.frames[i].removed

C34_NotInvokedOnceUnsubscribed ==
  [](C34_Once) /\ [][C34_InvokedWhileSubscribed]_vars

\* The first callback of a pass unsubscribed the second and subscribed
\* nothing; the pass ended without invoking the second.
C34_Witness ==
  /\ cell.lastOp.op = "return"
  /\ cell.done.startSubs = Callbacks
  /\ cell.done.removed = {"k2"}
  /\ cell.done.invoked = <<"k1">>
  /\ cell.subs = <<"k1">>

\* C35: the subscriber set holds a callback at most once; subscribe with a
\* callback that is registered leaves the set as it was and with one that
\* is not adds it at the end; one call of an unsubscribe function of the
\* callback leaves no entry of it; and a set call that returned has invoked
\* once every callback registered when it started and not unsubscribed
\* while it ran.
C35_NoDuplicates ==
  /\ \A i, j \in 1..Len(cell.subs) : cell.subs[i] = cell.subs[j] => i = j
  /\ \A k \in cell.done.startSubs \ cell.done.removed :
        Times(cell.done.invoked, k) = 1

C35_Step ==
  /\ cell'.lastOp.op = "subscribe" =>
        cell'.subs = IF cell'.lastOp.had THEN cell.subs
                     ELSE Append(cell.subs, cell'.lastOp.k)
  /\ cell'.lastOp.op = "unsubscribe" =>
        \A i \in 1..Len(cell'.subs) : cell'.subs[i] # cell'.lastOp.k

C35_KeyedByIdentity == [](C35_NoDuplicates) /\ [][C35_Step]_vars

\* subscribe was called with a callback that was registered already, and
\* the set holds it once.
C35_Witness ==
  /\ cell.lastOp = Op("subscribe", "k1", TRUE)
  /\ cell.subs = <<"k1">>
  /\ cell.frames = <<>>

\* C33: when the function passed to set throws, the value of the cell is
\* the one before the call and the call starts no notification pass; when a
\* callback throws, no set call is left in progress and none returns, the
\* cell holds the value the call wrote, and until the next set call no
\* callback is invoked.
C33_Step ==
  /\ (cell'.lastOp.op = "threw" /\ cell'.lastOp.k = "") =>
        /\ cell'.sets = cell.sets + 1
        /\ ObjectIs(cell'.value, cell.value)
        /\ cell'.started = cell.started
        /\ cell'.writes = cell.writes
        /\ cell'.frames = <<>>
  /\ (cell'.lastOp.op = "threw" /\ cell'.lastOp.k # "") =>
        /\ cell.frames # <<>>
        /\ cell'.frames = <<>>
        /\ cell'.returned = cell.returned
        /\ ObjectIs(cell'.value, cell.value)
        /\ ObjectIs(cell'.value, cell.computed)
  /\ cell.lastOp.op = "threw" =>
        /\ ~IsInvocation
        /\ cell'.lastOp.op # "return"
        /\ cell'.returned = cell.returned

C33_Throws == [][C33_Step]_vars

\* The first of two subscribers threw in the pass of a set call that
\* merged first: 'a': the cell holds the merged object, the call has not
\* returned and the second subscriber was not invoked.
C33_Witness ==
  /\ cell.lastOp = Op("threw", "k1", FALSE)
  /\ cell.subs = <<"k1", "k2">>
  /\ cell.sets = 1 /\ cell.returned = 0 /\ cell.frames = <<>>
  /\ Prop(cell.value, "first") = Str(<<"a">>)
  /\ cell.got.at = 1

\* C31: no step changes the properties of an object that exists; the
\* factory's initialState object has the properties it was created with,
\* the object a get() returned has the properties it had then, and the
\* cell of a Provider that has just mounted holds the initial state.
C31_ObjectsKept ==
  /\ cell.heap[InitialState("A").id] = InitialState("A").fields
  /\ cell.got.v.t = "object" => cell.heap[cell.got.v.id] = cell.got.v.fields
  /\ cell.lastOp.op = "mount" =>
        ObjectIs(cell.value, InitialState("A"))
          /\ SameContent(cell.value, InitialState("A"))

C31_Step ==
  \A i \in DOMAIN cell.heap :
    i \in DOMAIN cell'.heap /\ cell'.heap[i] = cell.heap[i]

C31_NoMutation == [](C31_ObjectsKept) /\ [][C31_Step]_vars

\* After two merge updates, of which get() returned the first result, a
\* Provider has mounted anew: three objects exist and the cell holds the
\* initial one.
C31_Witness ==
  /\ cell.lastOp.op = "mount"
  /\ cell.sets = 2
  /\ cell.update = ValueUpdate(Obj(0, [k \in {"first"} |-> Str(<<"a">>)]))
  /\ Cardinality(DOMAIN cell.heap) = 3
  /\ \E i \in DOMAIN cell.heap : "first" \in DOMAIN cell.heap[i]
                                    /\ cell.heap[i]["first"] = Str(<<"a">>)

\* A step that is a set call whose function, if any, returned.
IsCellSet == cell'.sets = cell.sets + 1 /\ cell'.lastOp.op = "set"

\* C32: every set call starts a notification pass over all the callbacks
\* subscribed at that moment, whatever the value it wrote, and the pass of
\* a call that returned has invoked them all; a non-function update of
\* type object, {} and null included, installs an object of an identity
\* that did not exist; the update prev => prev and a primitive update that
\* is the current value leave the reference get() returns as it was.
C32_Step ==
  IsCellSet =>
    /\ cell'.started = cell.started + 1
    /\ Len(cell'.frames) = Len(cell.frames) + 1
    /\ cell'.frames[Len(cell'.frames)].order = cell.subs
    /\ (cell'.update.kind = "value" /\ TypeOf(cell'.update.v) = "object") =>
          /\ cell'.value.t = "object"
          /\ ~ObjectIs(cell'.value, cell.value)
          /\ cell'.value.id \notin DOMAIN cell.heap
    /\ cell'.update = FnUpdate("identity") => ObjectIs(cell'.value, cell.value)
    /\ (cell'.update.kind = "value" /\ TypeOf(cell'.update.v) # "object"
          /\ ObjectIs(cell'.update.v, cell.value)) =>
          ObjectIs(cell'.value, cell.value)

C32_Notified ==
  cell.lastOp.op = "return" => cell.done.invoked = cell.done.order

C32_NoEqualityCheck == [](C32_Notified) /\ [][C32_Step]_vars

\* set({}) on the initial state has installed a new object with the same
\* properties and its pass has invoked the subscriber.
C32_Witness ==
  /\ cell.lastOp.op = "return"
  /\ cell.sets = 1
  /\ cell.update = ValueUpdate(Obj(0, NoFields))
  /\ cell.done.invoked = <<"k1">>
  /\ SameContent(cell.value, InitialState("A"))
  /\ ~ObjectIs(cell.value, InitialState("A"))

\* The keys the Provider takes out of its props.
OwnProps == {"children", "UNSAFE_stable_children"}

\* C36: the cell of a mounted publisher Provider has every key of the
\* initial state and neither children nor UNSAFE_stable_children; a render
\* of the Provider removes no key from the cell, and a key that is not among
\* the props of the render keeps the value it had, the initial one at the
\* mount.
C36_Keys ==
  \A f \in Publishers :
    provMounted[f] =>
      /\ Get(f).t = "object"
      /\ DOMAIN InitialState(f).fields \subseteq DOMAIN Get(f).fields
      /\ DOMAIN Get(f).fields \cap OwnProps = {}
      /\ DOMAIN pub[f].rest \cap OwnProps = {}

C36_Step ==
  \A f \in Publishers :
    provRenders'[f] # provRenders[f] =>
      LET before == IF provMounted[f] THEN Get(f) ELSE InitialState(f) IN
      \A k \in DOMAIN before.fields :
        /\ k \in DOMAIN storeCur'[f].fields
        /\ storeCur'[f].fields[k] =
             IF k \in DOMAIN pub'[f].rest THEN pub'[f].rest[k] ELSE before.fields[k]

C36_MergeKeepsKeys == [](C36_Keys) /\ [][C36_Step]_vars

\* The Provider rendered a second time with theme as its only state prop:
\* the cell has the new theme and still the language of the mount, which is
\* not the initial one.
C36_Witness ==
  /\ provMounted["P"] /\ provRenders["P"] = 2
  /\ DOMAIN pub["P"].rest = {"theme"}
  /\ pub["P"].rest["theme"] = Str(<<"dark">>)
  /\ Prop(Get("P"), "theme") = Str(<<"dark">>)
  /\ Prop(Get("P"), "language") = Str(<<"ua">>)
  /\ snap["LangConsumer"] = Str(<<"ua">>)

====
